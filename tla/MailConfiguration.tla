-------------------------- MODULE MailConfiguration --------------------------
(***************************************************************************)
(* How the server's mail settings are resolved (drfed configuration.ts,     *)
(* mail-parser.ts, mail-settings.ts, jmap-settings.ts, ses-settings.ts,     *)
(* api-mail-settings.ts, secret-source.ts): every setting may come from     *)
(* the command line, the environment or the file, at most one transport and *)
(* one credential is chosen from what they give, contradictions of one      *)
(* source are refused, and what plays no part is reported as ignored.       *)
(*                                                                         *)
(* The credentials of a transport are two variants, each given literally or *)
(* as a file: a password or a token (SMTP, JMAP), a key of its own or the   *)
(* common one (the API services), an access key or a session token (SES).   *)
(* Ports, endpoints, timeouts and the contents of files are left out.       *)
(***************************************************************************)
EXTENDS Integers, FiniteSets, FiniteSetsExt

CONSTANT Givens \* what the sources may give for every setting

VARIABLES
  given, \* what each source gives
  mail   \* the settings resolved

mailVars == <<given, mail>>

\* A value, and the rank of its source: 1 the file, 2 the environment, 3 the
\* command line.
NotGiven == [rank |-> -1, value |-> "none"]

Selectors == {"mailTransport", "smtpUrl", "smtpHost", "jmapSessionUrl"}
PasswordFields == {"password", "passwordFile"}
TokenFields == {"token", "tokenFile"}
CredentialFields == PasswordFields \union TokenFields
MailFields ==
  Selectors \union CredentialFields \union {"user", "tls", "authMethod"}

Transports == {"logtape", "smtp", "jmap", "api", "ses"}
PasswordMethods == {"plain", "login"}
TokenMethods == {"xoauth2", "oauthbearer"}
TlsModes == {"direct", "starttls-required", "opportunistic"}

\* Every source gives a setting a text, or not at all.
ASSUME GivensAssumption ==
  Givens \subseteq [MailFields -> SUBSET [rank : 1 .. 3, value : STRING]]

Undecided == [transport |-> "unresolved"]
MailRefused == [transport |-> "refused"]

MailInit == given \in Givens /\ mail = Undecided

-----------------------------------------------------------------------------
\* bind(): a setting is the value of its highest source.
BindSetting(values) ==
  IF values = {} THEN NotGiven
  ELSE CHOOSE v \in values : \A w \in values : w.rank <= v.rank

RawSettings(giving) == [f \in MailFields |-> BindSetting(giving[f])]

RankOf(raw, fields) == Max({raw[f].rank : f \in fields})
IsGiven(raw, f) == raw[f].rank >= 0

\* resolveSecretSource(): the fields of highest rank; one must be alone there.
HighestFields(raw, fields) ==
  {f \in fields : IsGiven(raw, f) /\ raw[f].rank = RankOf(raw, fields)}

HighestField(raw, fields) == CHOOSE f \in fields : f \in HighestFields(raw, fields)

\* selectTransport(): the selectors of the highest source decide, and must
\* agree.
IsDecisive(raw, f) == f \in HighestFields(raw, Selectors)

SelectTransport(raw) ==
  LET transport == IF IsDecisive(raw, "mailTransport")
                   THEN raw["mailTransport"].value
                   ELSE IF IsDecisive(raw, "jmapSessionUrl") THEN "jmap"
                   ELSE IF IsDecisive(raw, "smtpUrl") \/ IsDecisive(raw, "smtpHost")
                   THEN "smtp"
                   ELSE "logtape"
  IN IF \/ transport \notin Transports
        \/ transport # "smtp" /\ (IsDecisive(raw, "smtpUrl") \/ IsDecisive(raw, "smtpHost"))
        \/ transport # "jmap" /\ IsDecisive(raw, "jmapSessionUrl")
     THEN "refused" ELSE transport

-----------------------------------------------------------------------------
(* SMTP                                                                    *)

\* urlComponents(): what the URL gives, at the rank of the URL.
UrlComponents(raw) ==
  LET url == raw["smtpUrl"]
      part(value) == [rank |-> url.rank, value |-> value]
      login(value) == IF url.value = "login" THEN part(value) ELSE NotGiven
  IN [host |-> IF url = NotGiven THEN NotGiven ELSE part("host"),
      tls |-> IF url = NotGiven THEN NotGiven
              ELSE part(IF url.value = "secure" THEN "direct" ELSE "opportunistic"),
      user |-> login("user"),
      password |-> login("password")]

\* component(): a field of its own or the URL's, but not both at one source.
GivenTwice(explicit, inherited) ==
  explicit.rank = inherited.rank /\ explicit.rank >= 0

ComponentOf(explicit, inherited) ==
  IF explicit.rank > inherited.rank THEN explicit ELSE inherited

\* authentication(): whether a password is used rather than a token.
SmtpPasswordRank(raw) ==
  Max({RankOf(raw, PasswordFields), UrlComponents(raw).password.rank})
PasswordSelected(raw) == SmtpPasswordRank(raw) > RankOf(raw, TokenFields)

\* The chosen password or token, as the field it comes from.
SmtpCredential(raw) ==
  LET literal == ComponentOf(raw["password"], UrlComponents(raw).password) IN
    IF ~PasswordSelected(raw) THEN HighestField(raw, TokenFields)
    ELSE IF raw["passwordFile"].rank > literal.rank THEN "passwordFile"
    ELSE IF literal = raw["password"] THEN "password"
    ELSE "smtpUrl"

SmtpCredentialRefused(raw) ==
  IF PasswordSelected(raw)
  THEN LET literal == Max({raw["password"].rank, UrlComponents(raw).password.rank})
       IN \/ raw["passwordFile"].rank = literal
          \/ /\ raw["passwordFile"].rank < literal
             /\ GivenTwice(raw["password"], UrlComponents(raw).password)
  ELSE Cardinality(HighestFields(raw, TokenFields)) # 1

\* authenticationMethod(): one of the other variant, from a lower source than
\* the credential, is passed over.
MethodsOf(raw) == IF PasswordSelected(raw) THEN PasswordMethods ELSE TokenMethods

MethodPassedOver(raw) ==
  /\ raw["authMethod"].value \in (PasswordMethods \union TokenMethods) \ MethodsOf(raw)
  /\ raw["authMethod"].rank < Max({SmtpPasswordRank(raw), RankOf(raw, TokenFields)})

AuthenticationMethod(raw) ==
  IF ~IsGiven(raw, "authMethod") \/ MethodPassedOver(raw)
  THEN IF PasswordSelected(raw) THEN "plain" ELSE "xoauth2"
  ELSE raw["authMethod"].value

\* Mutant: a URL's mode is kept although it authenticates.
TlsModeKept(raw, authenticated) ==
  LET tls == ComponentOf(raw["tls"], UrlComponents(raw).tls) IN
    IF tls = NotGiven THEN "starttls-required" ELSE tls.value

\* tlsMode(): a URL's opportunistic mode is not enough to authenticate.
TlsMode(raw, authenticated) ==
  LET tls == ComponentOf(raw["tls"], UrlComponents(raw).tls) IN
    IF tls = NotGiven THEN "starttls-required"
    ELSE IF authenticated /\ tls.value = "opportunistic" THEN "starttls-required"
    ELSE tls.value

\* An explicit opportunistic mode refuses to authenticate.
TlsRefused(raw, authenticated) ==
  LET tls == ComponentOf(raw["tls"], UrlComponents(raw).tls) IN
    \/ tls # NotGiven /\ tls.value \notin TlsModes
    \/ /\ authenticated /\ tls.value = "opportunistic"
       /\ raw["tls"].rank > UrlComponents(raw).tls.rank

SmtpAuthenticates(raw) ==
  SmtpPasswordRank(raw) >= 0 \/ RankOf(raw, TokenFields) >= 0

SmtpRefused(raw) ==
  LET inherited == UrlComponents(raw)
      user == ComponentOf(raw["user"], inherited.user)
  IN \/ GivenTwice(raw["smtpHost"], inherited.host)
     \/ GivenTwice(raw["tls"], inherited.tls)
     \/ GivenTwice(raw["user"], inherited.user)
     \/ ComponentOf(raw["smtpHost"], inherited.host) = NotGiven
     \/ TlsRefused(raw, SmtpAuthenticates(raw))
     \/ ~SmtpAuthenticates(raw) /\ (user # NotGiven \/ IsGiven(raw, "authMethod"))
     \/ /\ SmtpAuthenticates(raw)
        /\ \/ SmtpPasswordRank(raw) = RankOf(raw, TokenFields)
           \/ user = NotGiven
           \/ SmtpCredentialRefused(raw)
           \/ AuthenticationMethod(raw) \notin MethodsOf(raw)

SmtpSettings(raw) ==
  IF SmtpRefused(raw) THEN MailRefused
  ELSE [transport |-> "smtp",
        host |-> ComponentOf(raw["smtpHost"], UrlComponents(raw).host),
        tls |-> TlsMode(raw, SmtpAuthenticates(raw)),
        user |-> ComponentOf(raw["user"], UrlComponents(raw).user),
        credential |-> IF SmtpAuthenticates(raw) THEN SmtpCredential(raw) ELSE "none",
        method |-> IF SmtpAuthenticates(raw) THEN AuthenticationMethod(raw)
                   ELSE "none"]

-----------------------------------------------------------------------------
(* The other transports                                                    *)

JmapSettings(raw) ==
  LET bearer == RankOf(raw, TokenFields) > RankOf(raw, PasswordFields)
      fields == IF bearer THEN TokenFields ELSE PasswordFields
  IN IF \/ ~IsGiven(raw, "jmapSessionUrl")
        \/ RankOf(raw, TokenFields) = RankOf(raw, PasswordFields)
        \/ Cardinality(HighestFields(raw, fields)) # 1
        \/ ~bearer /\ ~IsGiven(raw, "user")
     THEN MailRefused
     ELSE [transport |-> "jmap",
           user |-> IF bearer THEN NotGiven ELSE raw["user"],
           credential |-> HighestField(raw, fields)]

\* resolveApiMailSettings(): a service's own key or the common one.
ApiMailSettings(raw) ==
  IF Cardinality(HighestFields(raw, CredentialFields)) # 1 THEN MailRefused
  ELSE [transport |-> "api", credential |-> HighestField(raw, CredentialFields)]

\* A session token from a higher source than the mode implies a session.
SesMode(raw) ==
  IF RankOf(raw, TokenFields) > raw["authMethod"].rank THEN "session"
  ELSE IF IsGiven(raw, "authMethod") THEN raw["authMethod"].value
  ELSE "credentials"

SesSettings(raw) ==
  IF \/ SesMode(raw) \notin {"credentials", "session"}
     \/ Cardinality(HighestFields(raw, PasswordFields)) # 1
     \/ SesMode(raw) = "session" /\ Cardinality(HighestFields(raw, TokenFields)) # 1
  THEN MailRefused
  ELSE [transport |-> "ses", mode |-> SesMode(raw),
        credential |-> HighestField(raw, PasswordFields),
        session |-> IF SesMode(raw) = "session" THEN HighestField(raw, TokenFields)
                    ELSE "none"]

MailSettings(raw) ==
  CASE SelectTransport(raw) = "smtp" -> SmtpSettings(raw)
    [] SelectTransport(raw) = "jmap" -> JmapSettings(raw)
    [] SelectTransport(raw) = "api" -> ApiMailSettings(raw)
    [] SelectTransport(raw) = "ses" -> SesSettings(raw)
    [] SelectTransport(raw) = "logtape" -> [transport |-> "logtape"]
    [] OTHER -> MailRefused

\* The fields a transport reads, or takes from nowhere else.
FieldsOf(transport) ==
  CASE transport = "smtp" -> MailFields \ {"jmapSessionUrl"}
    [] transport = "jmap" -> CredentialFields \union
                             {"mailTransport", "jmapSessionUrl", "user"}
    [] transport = "api" -> CredentialFields \union {"mailTransport"}
    [] transport = "ses" -> CredentialFields \union {"mailTransport", "authMethod"}
    [] transport = "logtape" -> {"mailTransport"}

\* ignoredMailField(): settings of other transports, credentials that were not
\* chosen, and what they alone need.
IgnoredFields(raw, settings) ==
  {f \in MailFields :
     /\ IsGiven(raw, f)
     /\ \/ f \notin FieldsOf(settings.transport)
        \/ /\ settings.transport = "smtp"
           /\ \/ /\ f \in CredentialFields
                 /\ f # settings.credential
                 /\ ~(f = "password" /\ settings.credential = "smtpUrl")
              \/ f = "authMethod" /\ settings.credential # "none" /\ MethodPassedOver(raw)
        \/ /\ settings.transport = "jmap"
           /\ f \in (CredentialFields \ {settings.credential}) \union
                    (IF settings.user = NotGiven THEN {"user"} ELSE {})
        \/ settings.transport = "api" /\ f \in CredentialFields \ {settings.credential}
        \/ /\ settings.transport = "ses"
           /\ f \in CredentialFields \ {settings.credential, settings.session}}

\* resolveMailSettings(), once, when the server starts.
ResolveMailSettings ==
  /\ mail = Undecided
  /\ mail' = MailSettings(RawSettings(given))
  /\ UNCHANGED given

MailNext == ResolveMailSettings

MailSpec == MailInit /\ [][MailNext]_mailVars

-----------------------------------------------------------------------------
(* Properties                                                              *)

\* A credential is sent to an SMTP server only over TLS, whichever sources give
\* the credential, the URL and the mode.
CredentialsNeedTls ==
  mail.transport = "smtp" /\ mail.credential # "none" => mail.tls # "opportunistic"

\* The credential that is used is the only one of its source, and no higher
\* source gives another one.
CredentialIsHighest(raw) ==
  LET ranks == [f \in CredentialFields \union {"smtpUrl"} |->
                  IF f = "smtpUrl" THEN UrlComponents(raw).password.rank
                  ELSE raw[f].rank]
      variants == CASE mail.transport = "smtp" -> DOMAIN ranks
                    [] mail.transport = "ses" -> PasswordFields
                    [] OTHER -> CredentialFields
  IN mail.credential # "none" =>
       \A f \in variants \ {mail.credential} : ranks[f] < ranks[mail.credential]

\* What is reported as ignored plays no part: without it the server would have
\* the same mail settings.
IgnoredPlaysNoPart(raw) ==
  MailSettings([f \in MailFields |->
                  IF f \in IgnoredFields(raw, mail) THEN NotGiven ELSE raw[f]]) = mail

MailFollowsSources ==
  LET raw == RawSettings(given) IN
    mail \notin {Undecided, MailRefused} =>
      /\ CredentialsNeedTls
      /\ mail.transport # "logtape" => CredentialIsHighest(raw)
      /\ IgnoredPlaysNoPart(raw)
=============================================================================
