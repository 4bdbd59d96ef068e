---------------------------- MODULE AccountLimits ----------------------------
(***************************************************************************)
(* The mutations that create instances and actors (graphql instance.ts and  *)
(* actor.ts), whose requests run in READ COMMITTED transactions of several  *)
(* statements: an account has a number of instances it may make, and an     *)
(* instance a number of actors it may hold.                                 *)
(*                                                                         *)
(* A local instance is named by its slug, which makes up its host.  An      *)
(* actor is the request that made it and the username it drew; its          *)
(* collections are promoted with it.  Memberships are ended, invitations    *)
(* sent and accepted and instances expire by hand.                          *)
(***************************************************************************)
EXTENDS Integers, FiniteSets

CONSTANTS
  Requests,      \* the mutations running
  Asks,          \* what a mutation may ask: an instance or some actors
  Slugs,
  Usable,        \* the slugs that make a host this server can parse
  Applicants,    \* the accounts that ask
  MaxInstances,  \* of one account
  MaxActors,     \* of one instance
  Usernames,     \* the usernames that are drawn
  Worlds         \* the hosts, memberships and actors to begin with

ASSUME LimitsAssumption ==
  /\ MaxInstances \in Nat /\ MaxActors \in Nat \ {0}
  /\ IsFiniteSet(Usernames)
  /\ \A ask \in Asks : /\ ask.op \in {"instance", "actors"}
                       /\ ask.slug \in Slugs /\ ask.account \in Applicants
                       /\ ask.size \in Int
  /\ \A world \in Worlds :
       /\ world.hosts \in [Slugs -> {"free", "local", "remote"}]
       /\ world.members \in [Slugs -> SUBSET Applicants]
       /\ world.accepted \in [Slugs -> SUBSET Applicants]
       /\ world.actors \in [Slugs -> SUBSET Usernames]
       /\ \A slug \in Slugs : Cardinality(world.actors[slug]) <= MaxActors

VARIABLES
  hosts,     \* the hosts registered, of local and of remote instances
  members,   \* the accounts that joined an instance or were invited to it
  accepted,  \* those that joined
  expired,   \* the local instances that expired
  actors,    \* the local actors of an instance, by username
  asked,     \* what every request asks
  at,        \* the statement it is at
  drawn,     \* the usernames its transaction has inserted
  reply     \* what it was answered

stored == <<hosts, members, accepted, expired, actors>>
accountVars == <<stored, asked, at, drawn, reply>>

NoAsk == [op |-> "none"]

-----------------------------------------------------------------------------
(* Requests, and the rows they hold                                         *)

\* The statements of a transaction that holds the row of its slug.
Inserting == {"inserted", "counted instances"}
Locking == {"locked", "counted actors"}

\* The unique indexes of a slug and of a host make a second insertion wait.
SlugHeld(r, slug) ==
  \E other \in Requests \ {r} : at[other] \in Inserting /\ asked[other].slug = slug

\* Mutant: no row lock.
UnlockedAlways(r, slug) == slug \in Slugs
\* SELECT ... FOR UPDATE OF local_instances waits for the row.
Unlocked(r, slug) ==
  \A other \in Requests \ {r} : at[other] \in Locking => asked[other].slug # slug

Replied(r, said) ==
  /\ at' = [at EXCEPT ![r] = "answered"]
  /\ reply' = [reply EXCEPT ![r] = said]
Advanced(r, step) == at' = [at EXCEPT ![r] = step] /\ UNCHANGED reply

Begin(r, ask) ==
  /\ at[r] = "idle"
  /\ asked' = [asked EXCEPT ![r] = ask]
  /\ IF ask.op = "instance" /\ ask.slug \notin Usable
     THEN Replied(r, "invalid")
     ELSE IF ask.op = "actors" /\ ask.size < 1 THEN Replied(r, "invalid")
     ELSE Advanced(r, IF ask.op = "instance" THEN "insert" ELSE "lock")
  /\ UNCHANGED <<stored, drawn>>

\* An error rolls the transaction back.
Fail(r) ==
  /\ at[r] \notin {"idle", "answered"}
  /\ Replied(r, "failed")
  /\ drawn' = [drawn EXCEPT ![r] = {}]
  /\ UNCHANGED <<stored, asked>>

-----------------------------------------------------------------------------
(* createInstance                                                           *)

\* The rows of the instance and of its membership.
InsertInstance(r) ==
  LET slug == asked[r].slug IN
  /\ at[r] = "insert" /\ ~SlugHeld(r, slug)
  /\ IF hosts[slug] = "local" THEN Replied(r, "taken")
     ELSE IF hosts[slug] = "remote" THEN Replied(r, "failed")
     ELSE Advanced(r, "inserted")
  /\ UNCHANGED <<stored, asked, drawn>>

\* Invitations count; instances other transactions insert do not, yet.
CountInstances(r) ==
  LET joined == {slug \in Slugs : asked[r].account \in members[slug]} IN
  /\ at[r] = "inserted"
  /\ IF Cardinality(joined) + 1 > MaxInstances
     THEN Replied(r, "too many")
     ELSE Advanced(r, "counted instances")
  /\ UNCHANGED <<stored, asked, drawn>>

CommitInstance(r) ==
  LET slug == asked[r].slug IN
  /\ at[r] = "counted instances"
  /\ hosts' = [hosts EXCEPT ![slug] = "local"]
  /\ members' = [members EXCEPT ![slug] = @ \union {asked[r].account}]
  /\ accepted' = [accepted EXCEPT ![slug] = @ \union {asked[r].account}]
  /\ Replied(r, "instance")
  /\ UNCHANGED <<expired, actors, asked, drawn>>

-----------------------------------------------------------------------------
(* generateActors                                                           *)

LockInstance(r) ==
  LET slug == asked[r].slug IN
  /\ at[r] = "lock"
  /\ IF /\ hosts[slug] = "local" /\ slug \notin expired
        /\ asked[r].account \in accepted[slug]
     THEN Unlocked(r, slug) /\ Advanced(r, "locked")
     ELSE Replied(r, "not found")
  /\ UNCHANGED <<stored, asked, drawn>>

\* A host the server that stored it could parse may be one this cannot.
CountActors(r) ==
  LET slug == asked[r].slug IN
  /\ at[r] = "locked"
  /\ IF slug \notin Usable THEN Replied(r, "invalid")
     ELSE IF asked[r].size + Cardinality(actors[slug]) > MaxActors
     THEN Replied(r, "too many")
     ELSE Advanced(r, "counted actors")
  /\ UNCHANGED <<stored, asked, drawn>>

\* A username that is taken is drawn anew; drawing ten of them fails.
InsertActor(r, username) ==
  /\ at[r] = "counted actors" /\ Cardinality(drawn[r]) < asked[r].size
  /\ username \notin actors[asked[r].slug] \union drawn[r]
  /\ drawn' = [drawn EXCEPT ![r] = @ \union {username}]
  /\ UNCHANGED <<stored, asked, at, reply>>

CommitActors(r) ==
  /\ at[r] = "counted actors" /\ Cardinality(drawn[r]) = asked[r].size
  /\ actors' = [actors EXCEPT ![asked[r].slug] = @ \union drawn[r]]
  /\ Replied(r, "actors")
  /\ UNCHANGED <<hosts, members, accepted, expired, asked, drawn>>

-----------------------------------------------------------------------------
(* What others do meanwhile                                                 *)

\* ensureRemoteInstance() of an inbox that meets an actor of the host.
RegisterRemote(slug) ==
  /\ hosts[slug] = "free"
  /\ \A r \in Requests : at[r] \in Inserting => asked[r].slug # slug
  /\ hosts' = [hosts EXCEPT ![slug] = "remote"]
  /\ UNCHANGED <<members, accepted, expired, actors, asked, at, drawn, reply>>

\* A row that is locked is not changed.
ExpireInstance(slug) ==
  /\ hosts[slug] = "local" /\ slug \notin expired
  /\ \A r \in Requests : at[r] \in Locking => asked[r].slug # slug
  /\ expired' = expired \union {slug}
  /\ UNCHANGED <<hosts, members, accepted, actors, asked, at, drawn, reply>>

Invite(slug, account) ==
  /\ hosts[slug] = "local" /\ account \notin members[slug]
  /\ members' = [members EXCEPT ![slug] = @ \union {account}]
  /\ UNCHANGED <<hosts, accepted, expired, actors, asked, at, drawn, reply>>

AcceptInvitation(slug, account) ==
  /\ account \in members[slug] \ accepted[slug]
  /\ accepted' = [accepted EXCEPT ![slug] = @ \union {account}]
  /\ UNCHANGED <<hosts, members, expired, actors, asked, at, drawn, reply>>

Leave(slug, account) ==
  /\ account \in members[slug]
  /\ members' = [members EXCEPT ![slug] = @ \ {account}]
  /\ accepted' = [accepted EXCEPT ![slug] = @ \ {account}]
  /\ UNCHANGED <<hosts, expired, actors, asked, at, drawn, reply>>

AccountInit ==
  /\ \E world \in Worlds :
       /\ hosts = world.hosts /\ members = world.members
       /\ accepted = world.accepted /\ actors = world.actors
  /\ expired = {}
  /\ asked = [r \in Requests |-> NoAsk]
  /\ at = [r \in Requests |-> "idle"]
  /\ drawn = [r \in Requests |-> {}]
  /\ reply = [r \in Requests |-> "none"]

Progress(r) ==
  \/ \E ask \in Asks : Begin(r, ask)
  \/ InsertInstance(r) \/ CountInstances(r) \/ CommitInstance(r)
  \/ LockInstance(r) \/ CountActors(r) \/ CommitActors(r)
  \/ \E username \in Usernames : InsertActor(r, username)
  \/ Fail(r)
AccountNext ==
  \/ \E r \in Requests : Progress(r)
  \/ \E slug \in Slugs : RegisterRemote(slug) \/ ExpireInstance(slug)
  \/ \E slug \in Slugs, account \in Applicants :
       Invite(slug, account) \/ AcceptInvitation(slug, account) \/ Leave(slug, account)

AccountSpec == AccountInit /\ [][AccountNext]_accountVars

-----------------------------------------------------------------------------
\* However many mutations create actors at once, no instance holds more than it
\* may (the row lock of generateActors, actor.ts:308, and the count after it), and
\* those a mutation answered with are all there, with usernames of their own.
ActorsWithinLimit ==
  /\ \A slug \in Slugs : Cardinality(actors[slug]) <= MaxActors
  /\ \A r \in Requests : reply[r] = "actors" =>
       /\ Cardinality(drawn[r]) = asked[r].size
       /\ drawn[r] \subseteq actors[asked[r].slug]
  /\ \A r, other \in Requests :
       /\ r # other /\ reply[r] = "actors" /\ reply[other] = "actors"
       /\ asked[r].slug = asked[other].slug
       => drawn[r] \cap drawn[other] = {}
=============================================================================
