------------------------------- MODULE Auth -------------------------------
(***************************************************************************)
(* The guards JWT, KeyAuth, BasicAuth, RBAC and ACL, in any order around a *)
(* handler, and CreateToken, which makes what JWT accepts.                 *)
(*                                                                         *)
(* A guard is one step, JWT two: the library reads the clock when it       *)
(* parses a token, and JWT again when it checks the claims.  Time is in    *)
(* whole seconds, as both compare it.  Signatures, encodings and hashes    *)
(* are the identity of who made them: a token names the key that signed    *)
(* it, and what a client presents has a kind ("token", "key", "basic",     *)
(* "garbage" or "empty") and, before it in the text, a scheme.             *)
(***************************************************************************)
EXTENDS Integers, Sequences, FiniteSets

CONSTANTS
  Stacks,      (* the guards of a route, the outermost first               *)
  Requests,    (* what a client may send: [public, carried], where carried *)
               (* is what is found at each <<method, name>> of Places, a   *)
               (* "token" standing for any token that there is             *)
  Places,
  Foreign,     (* the tokens that somebody else made                       *)
  Claims,      (* what CreateToken is called with                          *)
  Issuers,     (* ... and the [method, secret] of its config               *)
  MaxNow,      (* bound on the clock                                       *)
  MaxIssued,   (* bound on the tokens that CreateToken makes               *)
  None

HMAC == {"HS256", "HS384", "HS512"}
RSA == {"RS256", "RS384", "RS512"}

Times == Nat \cup {None}
ASSUME AuthConstants ==
  /\ MaxNow \in Nat /\ MaxIssued \in Nat
  /\ None \notin Nat
  /\ \A s \in Stacks : Len(s) \in Nat
  /\ \A c \in Claims \cup Foreign : {c.exp, c.nbf, c.iat} \subseteq Times

(* There are no other options than those that jwt.go has. *)
ASSUME OptionsAreKnown ==
  \A s \in Stacks : \A i \in 1..Len(s) : s[i].kind = "jwt" =>
    /\ Len(s[i].options) \in Nat
    /\ \A k \in 1..Len(s[i].options) :
         s[i].options[k][1] \in {"secret", "publicKey", "pem", "jks", "method",
                                "lookup", "scheme", "success", "skipper"}

VARIABLES
  now,      (* time.Now().Unix()                                           *)
  issued,   (* what CreateToken has returned                               *)
  stack,    (* the guards of the route                                     *)
  request, arrived,
  pc,       (* "idle", "guard" before guard number at, "claims" inside it, *)
            (* "answered"                                                  *)
  at,
  role,     (* what the Context holds for the RoleExtractor, None if nothing *)
  answer    (* status and whether WWW-Authenticate is set                  *)

vars == <<now, issued, stack, request, arrived, pc, at, role, answer>>

(* Mistaken forms of the definitions below: a secret that leaves the       *)
(* signing method alone, claims that are not checked for iat, a            *)
(* RoleExtractor whose error is taken for another role.                    *)
KeyOnly(config, option) ==
  IF option[1] = "secret" THEN [config EXCEPT !.secret = option[2]]
  ELSE [config EXCEPT !.publicKey = option[2], !.method = "RS256"]
WithoutIssuedAt(token, t) ==
  /\ token.exp # None => t <= token.exp
  /\ token.nbf # None => t >= token.nbf
AlwaysForbidden(r) == 403

----------------------------------------------------------------------------
(* The options of JWT; each is a function applied to the config, in order. *)

DefaultJWTConfig ==
  [lookup |-> <<"header", "Authorization">>, scheme |-> "Bearer", secret |-> None,
   publicKey |-> None, method |-> "HS256", onSuccess |-> "none", skipper |-> FALSE]

(* WithSecret, WithRSAPublicKey and the option of that name that reads PEM *)
(* (which leaves the config alone if it cannot), WithJKS.                  *)
WithKey(config, option) ==
  CASE option[1] = "secret" ->
         [config EXCEPT !.secret = option[2], !.method = "HS256"]
    [] option[1] = "pem" /\ option[2] = None -> config
    [] option[1] = "publicKey" \/ (option[1] = "pem" /\ option[2] # None) ->
         [config EXCEPT !.publicKey = option[2], !.method = "RS256"]
    [] option[1] = "jks" -> [config EXCEPT !.method = "RS256"]

Apply(config, option) ==
  CASE option[1] \in {"secret", "publicKey", "pem", "jks"} -> WithKey(config, option)
    [] option[1] = "method" -> [config EXCEPT !.method = option[2]]
    [] option[1] = "lookup" -> [config EXCEPT !.lookup = option[2]]
    [] option[1] = "scheme" -> [config EXCEPT !.scheme = option[2]]
    [] option[1] = "success" -> [config EXCEPT !.onSuccess = option[2]]
    [] option[1] = "skipper" -> [config EXCEPT !.skipper = option[2]]

(* The config when the first n of the options have been applied. *)
After(options) ==
  LET after[n \in 0..Len(options)] ==
        IF n = 0 THEN DefaultJWTConfig ELSE Apply(after[n - 1], options[n])
  IN  after

Config(guard) ==
  IF guard.kind = "jwt" THEN After(guard.options)[Len(guard.options)] ELSE guard

----------------------------------------------------------------------------
(* What a client presents. *)

Absent == [scheme |-> "", kind |-> "empty"]
Garbage == [scheme |-> "", kind |-> "garbage"]

Bare(presented) == IF presented.scheme = "" THEN presented ELSE Garbage

(* extractToken, and the extractor of KeyAuth: Absent for an error, which  *)
(* the default ErrorHandlers answer like a value that nobody accepts.      *)
(* A cookie may be there and empty, a header or a parameter may not.       *)
Extracted(config, carried) ==
  LET presented == carried[config.lookup]
      method == config.lookup[1]
  IN  IF \/ config.lookup \notin Places
         \/ presented = Absent
         \/ presented.kind = "empty" /\ method # "cookie"
      THEN Absent
      ELSE IF method # "header" \/ config.scheme = "" THEN Bare(presented)
      ELSE IF presented.scheme = config.scheme THEN presented ELSE Absent

Token(alg, key, claims, scheme) ==
  [kind |-> "token", scheme |-> scheme, alg |-> alg, key |-> key,
   exp |-> claims.exp, nbf |-> claims.nbf, iat |-> claims.iat, role |-> claims.role]

(* CreateToken: None for an error. *)
CreateToken(claims, config) ==
  IF config.method \in HMAC /\ config.secret # None
    THEN Token(config.method, config.secret, claims, "")
    ELSE None

----------------------------------------------------------------------------
(* parseToken: the key for the configured method, if there is one; reading *)
(* a public key from a JKS always fails.                                   *)
KeyFor(config) ==
  IF config.method \in HMAC THEN config.secret
  ELSE IF config.method \in RSA THEN config.publicKey
  ELSE None

(* jwt.Parse, which takes a claim of 0 for one that is not there. *)
Parses(config, presented, t) ==
  /\ presented.kind = "token"
  /\ presented.alg = config.method
  /\ KeyFor(config) # None
  /\ presented.key = KeyFor(config)
  /\ presented.exp \notin {None, 0} => t < presented.exp
  /\ presented.nbf \notin {None, 0} => t >= presented.nbf

ClaimsHold(token, t) ==
  /\ token.exp # None => t <= token.exp
  /\ token.nbf # None => t >= token.nbf
  /\ token.iat # None => t >= token.iat

(* What a SuccessHandler makes of the claims: "role" is one that puts the  *)
(* role into the Context and fails if there is none.                       *)
Succeeds(config, token) == config.onSuccess = "role" => token.role # None

(* What the Validator of KeyAuth or BasicAuth says of its arguments. *)
Verdict(presented, kind) ==
  IF presented.kind = kind THEN presented.verdict ELSE "invalid"

----------------------------------------------------------------------------
Skips(guard) == guard.kind # "role" /\ Config(guard).skipper /\ request.public
Presented(guard) == Extracted(Config(guard), request.carried)

(* The next guard is called. *)
Pass(r) ==
  /\ role' = r
  /\ at' = at + 1
  /\ pc' = "guard"
  /\ UNCHANGED <<now, issued, stack, request, arrived, answer>>

(* An error is returned to the App, or the response written by JWT itself. *)
Refuse(status, challenge) ==
  /\ answer' = [status |-> status, challenge |-> challenge]
  /\ pc' = "answered"
  /\ UNCHANGED <<now, issued, stack, request, arrived, at, role>>

Guarding(kind) ==
  /\ pc = "guard"
  /\ at <= Len(stack)
  /\ stack[at].kind = kind
  /\ ~Skips(stack[at])

Skip ==
  /\ pc = "guard"
  /\ at <= Len(stack)
  /\ Skips(stack[at])
  /\ Pass(role)

Parse ==
  /\ Guarding("jwt")
  /\ Parses(Config(stack[at]), Presented(stack[at]), now)
  /\ pc' = "claims"
  /\ UNCHANGED <<now, issued, stack, request, arrived, at, role, answer>>

ParseFails ==
  /\ Guarding("jwt")
  /\ ~Parses(Config(stack[at]), Presented(stack[at]), now)
  /\ Refuse(401, FALSE)

CheckClaims ==
  /\ pc = "claims"
  /\ LET token == Presented(stack[at]) IN
     IF ClaimsHold(token, now) /\ Succeeds(Config(stack[at]), token)
       THEN Pass(IF Config(stack[at]).onSuccess = "role" THEN token.role ELSE role)
       ELSE Refuse(401, FALSE)

KeyAuth ==
  /\ Guarding("key")
  /\ LET key == Presented(stack[at]) IN
     IF Verdict(key, "key") = "valid"
       THEN Pass(key.role) ELSE Refuse(401, FALSE)

Authorization == <<"header", "Authorization">>

Reads(creds) == creds.scheme = "Basic" /\ creds.kind = "basic"
BasicAuth ==
  /\ Guarding("basic")
  /\ LET creds == request.carried[Authorization] IN
     \/ creds.kind = "empty" /\ Refuse(401, TRUE)
     \/ creds.kind # "empty" /\ ~Reads(creds) /\ Refuse(401, FALSE)
     \/ Reads(creds) /\ creds.verdict = "error" /\ Refuse(500, FALSE)
     \/ Reads(creds) /\ creds.verdict = "invalid" /\ Refuse(401, TRUE)
     \/ Reads(creds) /\ creds.verdict = "valid" /\ Pass(creds.role)

(* RBAC, with one role, and ACL, with several. *)
RoleRefusal(r) == IF r = None THEN 401 ELSE 403
RequireRole ==
  /\ Guarding("role")
  /\ IF role # None /\ role \in stack[at].roles THEN Pass(role)
     ELSE Refuse(RoleRefusal(role), FALSE)

Handle ==
  /\ pc = "guard"
  /\ at > Len(stack)
  /\ Refuse(200, FALSE)

----------------------------------------------------------------------------
Filled(r, token) ==
  [public |-> r.public,
   carried |-> [p \in Places |->
     IF r.carried[p].kind = "token"
       THEN Token(token.alg, token.key, token, r.carried[p].scheme) ELSE r.carried[p]]]

Arrive ==
  /\ pc = "idle"
  /\ \E r \in Requests, token \in issued \cup Foreign : request' = Filled(r, token)
  /\ arrived' = now
  /\ pc' = "guard"
  /\ UNCHANGED <<now, issued, stack, at, role, answer>>

Issue ==
  /\ pc = "idle"
  /\ Cardinality(issued) < MaxIssued
  /\ \E claims \in Claims, config \in Issuers :
       /\ CreateToken(claims, config) # None
       /\ issued' = issued \cup {CreateToken(claims, config)}
  /\ UNCHANGED <<now, stack, request, arrived, pc, at, role, answer>>

Unanswered == [status |-> 0, challenge |-> FALSE]

Leave ==
  /\ pc = "answered"
  /\ pc' = "idle"
  /\ request' = None
  /\ arrived' = 0
  /\ at' = 1
  /\ role' = None
  /\ answer' = Unanswered
  /\ UNCHANGED <<now, issued, stack>>

Tick ==
  /\ pc # "answered"
  /\ now < MaxNow
  /\ now' = now + 1
  /\ UNCHANGED <<issued, stack, request, arrived, pc, at, role, answer>>

Init ==
  /\ now = 1
  /\ issued = {}
  /\ stack \in Stacks
  /\ request = None
  /\ arrived = 0
  /\ pc = "idle"
  /\ at = 1
  /\ role = None
  /\ answer = Unanswered

Next ==
  \/ Skip \/ Parse \/ ParseFails \/ CheckClaims \/ KeyAuth \/ BasicAuth
  \/ RequireRole \/ Handle \/ Arrive \/ Issue \/ Leave \/ Tick

Spec == Init /\ [][Next]_vars

----------------------------------------------------------------------------
(* Properties. *)

(* A token's own claims, as far as they can be told from outside: the time *)
(* of a decision lies between early and late.                              *)
Timely(token, early, late) ==
  /\ token.exp # None => early < token.exp
  /\ token.nbf # None => token.nbf <= late
  /\ token.iat # None => token.iat <= late

Genuine(config, token) ==
  /\ token.kind = "token"
  /\ token.key # None
  /\ token.alg = config.method
  /\ \/ token.alg \in HMAC /\ token.key = config.secret
     \/ token.alg \in RSA /\ token.key = config.publicKey

(* The role that the last guard before guard i which knows one has found. *)
Knows(j) ==
  /\ ~Skips(stack[j])
  /\ \/ stack[j].kind \in {"key", "basic"}
     \/ stack[j].kind = "jwt" /\ Config(stack[j]).onSuccess = "role"
RoleFrom(j) ==
  IF stack[j].kind = "basic" THEN request.carried[Authorization].role
  ELSE Presented(stack[j]).role
RoleBefore(i) ==
  LET known == {j \in 1..(i - 1) : Knows(j)}
  IN  IF known = {} THEN None
      ELSE RoleFrom(CHOOSE j \in known : \A k \in known : k <= j)

(* Guard i accepts the request, by what it is documented to ask for. *)
Accepts(i, early, late) ==
  LET guard == stack[i]
      creds == request.carried[Authorization]
  IN  \/ Skips(guard)
      \/ /\ guard.kind = "jwt"
         /\ Genuine(Config(guard), Presented(guard))
         /\ Timely(Presented(guard), early, late)
         /\ Config(guard).onSuccess = "role" => Presented(guard).role # None
      \/ /\ guard.kind = "key"
         /\ Presented(guard).kind = "key"
         /\ Presented(guard).verdict = "valid"
      \/ /\ guard.kind = "basic"
         /\ Reads(creds)
         /\ creds.verdict = "valid"
      \/ /\ guard.kind = "role"
         /\ RoleBefore(i) # None
         /\ RoleBefore(i) \in guard.roles

(* A request reaches the handler only if every guard of its route had a    *)
(* reason to let it through at some time while it was under way, though    *)
(* JWT looks at two clocks, neither of which checks every claim, and RBAC  *)
(* at what the guards before it have left in the Context.                  *)
AdmittedWithReason ==
  pc = "answered" /\ answer.status = 200
    => \A i \in 1..Len(stack) : Accepts(i, arrived, now)

(* The answer of guard i when it is the one that refuses. *)
Refusal(i) ==
  LET creds == request.carried[Authorization]
      basic == stack[i].kind = "basic"
  IN  [status |-> IF stack[i].kind = "role" /\ RoleBefore(i) # None THEN 403
                  ELSE IF basic /\ Reads(creds) /\ creds.verdict = "error" THEN 500
                  ELSE 401,
       challenge |-> /\ basic
                     /\ \/ creds.kind = "empty"
                        \/ Reads(creds) /\ creds.verdict = "invalid"]

(* A refusal is the answer of the outermost guard that had a reason for    *)
(* it: 403 for a known client with the wrong role, 401 for an unknown one, *)
(* a challenge where other credentials would help.                         *)
RefusedWithReason ==
  pc = "answered" /\ answer.status # 200
    => \E i \in 1..Len(stack) :
         /\ \A j \in 1..(i - 1) : Accepts(j, arrived, now)
         /\ ~Accepts(i, now, arrived)
         /\ answer = Refusal(i)

(* What the options say, read from the last one to the first. *)
LastOf(options, opts, default) ==
  LET here == {i \in 1..Len(options) : options[i][1] \in opts}
  IN  IF here = {} THEN default ELSE options[CHOOSE i \in here : \A k \in here : k <= i][2]
Trusts(options, token) ==
  /\ token.alg = "HS256"
  /\ \E i \in 1..Len(options) :
       /\ options[i] = <<"secret", token.key>>
       /\ \A k \in i + 1..Len(options) :
            options[k][1] \notin {"secret", "publicKey", "pem", "jks", "method"}
Shown(options, token) ==
  LET place == LastOf(options, {"lookup"}, Authorization)
      scheme == LastOf(options, {"scheme"}, "Bearer")
  IN  /\ place \in Places
      /\ request.carried[place] =
           [token EXCEPT !.scheme = IF place[1] = "header" THEN scheme ELSE ""]

(* A token that CreateToken has made is not refused by a JWT that was      *)
(* given the same secret last, whatever other options came before, where   *)
(* the options say it is to be shown, until it expires.                    *)
IssuedIsAdmitted ==
  \A token \in issued :
    /\ pc = "answered" /\ answer.status # 200
    /\ stack[at].kind = "jwt"
    /\ Trusts(stack[at].options, token)
    /\ Shown(stack[at].options, token)
    /\ Timely(token, now, arrived)
    => token.role = None /\ LastOf(stack[at].options, {"success"}, "none") = "role"
============================================================================
