------------------------------ MODULE ActorKeys ------------------------------
(***************************************************************************)
(* The signing keys of one local actor (federation actor-key.ts,            *)
(* actor-key-task.ts): callers in several processes ask for them, those of  *)
(* one process share the operation that is under way, and keys that are     *)
(* missing are generated outside any transaction and saved under the        *)
(* actor's lock, while the actor may be deleted or its row removed, a       *)
(* process may die, and a key may have been stored broken.                  *)
(*                                                                         *)
(* A key is named by the attempt that generated it.  Fedify, which asks for *)
(* the keys, and the prewarming queue, which may drop the call it was to    *)
(* make, are external.                                                      *)
(***************************************************************************)
EXTENDS Integers, FiniteSets

CONSTANTS
  Callers,     \* calls of ensureActorKeyPairs(), one of them the warmup
  Processes,   \* processes with a memo of their own
  Home,        \* the process each call is made in
  Types,       \* the algorithms
  MaxAttempts, \* bound on the operations begun
  None         \* no key stored

ASSUME KeyAssumption ==
  /\ Home \in [Callers -> Processes]
  /\ MaxAttempts \in Nat
  /\ None \notin Nat /\ None \notin Processes

VARIABLES
  actor,     \* "live", "deleted" (a tombstone) or "removed"
  keys,      \* local_actor_keys: the attempt each type's pair is of
  broken,    \* whether a stored pair does not sign
  actorLock, \* the process whose transaction holds the actor's row
  op,        \* the operation each process shares
  attempts,  \* how many were begun
  call,      \* each call: whether it waits or was answered
  answer     \* the pairs each was given

keyVars == <<actor, keys, broken, actorLock, op, attempts, call, answer>>

Attempts == 0 .. MaxAttempts \* 0: keys stored before
Pairs == [Types -> Attempts]
NoKeys == [t \in Types |-> None]
Stored == {t \in Types : keys[t] # None}

Points == {"none", "load", "read", "generate", "lock", "save"}
NoOperation == [at |-> "none", attempt |-> 0, seen |-> "live", missing |-> {}]

KeyInit ==
  /\ actor = "live"
  /\ keys \in [Types -> {None, 0}]
  /\ broken \in BOOLEAN
  /\ broken => Stored # {}
  /\ actorLock = None
  /\ op = [p \in Processes |-> NoOperation]
  /\ attempts = 0
  /\ call = [c \in Callers |-> "idle"]
  /\ answer = [c \in Callers |-> NoKeys]

-----------------------------------------------------------------------------
\* The operation ends: the memo is cleared, and who shares it is answered.
Settles(p, outcome, pairs) ==
  /\ op' = [op EXCEPT ![p] = NoOperation]
  /\ call' = [c \in Callers |-> IF Home[c] = p /\ call[c] = "waiting"
                                THEN outcome ELSE call[c]]
  /\ answer' = [c \in Callers |-> IF Home[c] = p /\ call[c] = "waiting"
                                  THEN pairs ELSE answer[c]]

Goes(p, point) ==
  /\ op' = [op EXCEPT ![p].at = point]
  /\ UNCHANGED <<call, answer>>

\* A caller joins the operation its process has under way, or begins one.
EnsureActorKeyPairs(c) ==
  /\ call[c] = "idle"
  /\ call' = [call EXCEPT ![c] = "waiting"]
  /\ IF op[Home[c]].at # "none" THEN UNCHANGED <<op, attempts>>
     ELSE /\ attempts < MaxAttempts
          /\ attempts' = attempts + 1
          /\ op' = [op EXCEPT ![Home[c]] =
                      [NoOperation EXCEPT !.at = "load",
                                          !.attempt = attempts + 1]]
  /\ UNCHANGED <<actor, keys, broken, actorLock, answer>>

\* The actor is looked up by its identifier and its instance's host.
LoadActor(p) ==
  /\ op[p].at = "load"
  /\ IF actor = "removed" THEN Settles(p, "answered", NoKeys)
     ELSE /\ op' = [op EXCEPT ![p].at = "read", ![p].seen = actor]
          /\ UNCHANGED <<call, answer>>
  /\ UNCHANGED <<actor, keys, broken, actorLock, attempts>>

\* Stored pairs are verified; both suffice, whatever became of the actor.
ReadKeys(p) ==
  /\ op[p].at = "read"
  /\ CASE broken /\ Stored # {} -> Settles(p, "failed", NoKeys)
       [] ~broken /\ Stored = Types -> Settles(p, "answered", keys)
       [] ~broken /\ Stored # Types /\ op[p].seen = "deleted" ->
            Settles(p, "answered", NoKeys)
       [] OTHER -> /\ op' = [op EXCEPT ![p].at = "generate",
                                       ![p].missing = Types \ Stored]
                   /\ UNCHANGED <<call, answer>>
  /\ UNCHANGED <<actor, keys, broken, actorLock, attempts>>

Generate(p) ==
  /\ op[p].at = "generate"
  /\ Goes(p, "lock")
  /\ UNCHANGED <<actor, keys, broken, actorLock, attempts>>

\* The transaction locks the parent's row and the actor's, and looks again.
LockLocalActor(p) ==
  /\ op[p].at = "lock"
  /\ actorLock = None
  /\ IF actor = "removed"
     THEN Settles(p, "answered", NoKeys) /\ UNCHANGED actorLock
     ELSE Goes(p, "save") /\ actorLock' = p
  /\ UNCHANGED <<actor, keys, broken, attempts>>

\* onConflictDoNothing: a pair another process saved stays.
Saved(p) ==
  IF actor = "live"
  THEN [t \in Types |-> IF t \in op[p].missing /\ keys[t] = None
                        THEN op[p].attempt ELSE keys[t]]
  ELSE keys

\* Mutant: the caller is answered with what it generated.
AnswerGenerated(p, rows) ==
  [t \in Types |-> IF t \in op[p].missing THEN op[p].attempt ELSE rows[t]]

\* What the transaction read back, if it is complete.
Answer(p, rows) == IF None \in {rows[t] : t \in Types} THEN NoKeys ELSE rows

\* The rows are inserted and read back, and the transaction commits.
SaveKeys(p) ==
  /\ op[p].at = "save"
  /\ keys' = Saved(p)
  /\ actorLock' = None
  /\ Settles(p, "answered", Answer(p, Saved(p)))
  /\ UNCHANGED <<actor, broken, attempts>>

\* A database error, or the end of the process: its transaction rolls back.
OperationFails(p) ==
  /\ op[p].at # "none"
  /\ Settles(p, "failed", NoKeys)
  /\ actorLock' = IF actorLock = p THEN None ELSE actorLock
  /\ UNCHANGED <<actor, keys, broken, attempts>>

\* Deletions update the actor's row, or remove its parent and the keys with
\* it, and wait for who locks them.
DeleteActor ==
  /\ actor = "live"
  /\ actorLock = None
  /\ actor' = "deleted"
  /\ UNCHANGED <<keys, broken, actorLock, op, attempts, call, answer>>

RemoveActor ==
  /\ actor # "removed"
  /\ actorLock = None
  /\ actor' = "removed"
  /\ keys' = NoKeys
  /\ UNCHANGED <<broken, actorLock, op, attempts, call, answer>>

Operation(p) ==
  \/ LoadActor(p) \/ ReadKeys(p) \/ Generate(p) \/ LockLocalActor(p)
  \/ SaveKeys(p)

KeyNext ==
  \/ \E c \in Callers : EnsureActorKeyPairs(c)
  \/ \E p \in Processes : Operation(p) \/ OperationFails(p)
  \/ DeleteActor
  \/ RemoveActor

KeySpec == KeyInit /\ [][KeyNext]_keyVars

-----------------------------------------------------------------------------
(* Properties                                                              *)

KeyTypeOK ==
  /\ actor \in {"live", "deleted", "removed"}
  /\ keys \in [Types -> Attempts \union {None}]
  /\ broken \in BOOLEAN
  /\ actorLock \in Processes \union {None}
  /\ op \in [Processes -> [at : Points, attempt : Attempts,
                           seen : {"live", "deleted"}, missing : SUBSET Types]]
  /\ attempts \in Attempts
  /\ call \in [Callers -> {"idle", "waiting", "answered", "failed"}]
  /\ answer \in [Callers -> [Types -> Attempts \union {None}]]

\* Whichever processes generate keys at once, every caller signs with the pairs
\* that are saved, until the actor is removed with them: never with a pair of
\* its own that another one's kept out, and never with one type of two.  A live
\* actor's caller that is answered has them, also when the pre-warming queue
\* dropped the actor or its operation failed before.
AnswersAreSaved ==
  \A c \in Callers :
    /\ answer[c] = NoKeys \/ \A t \in Types : answer[c][t] # None
    /\ answer[c] # NoKeys /\ actor # "removed" => answer[c] = keys
    /\ call[c] = "answered" /\ actor = "live" /\ ~broken => answer[c] = keys

\* What a step may do to a stored pair.
PairIsFinal(t) ==
  keys'[t] # keys[t] => \/ actor' = "removed"
                        \/ keys[t] = None /\ actor = "live" /\ ~broken

\* A saved pair, also a broken one, is never replaced, but removed with the actor;
\* and none is added to a deleted actor or beside one that does not sign.
KeysAreFinal == [][\A t \in Types : PairIsFinal(t)]_keyVars
=============================================================================
