---------------------------- MODULE AuthProofs ----------------------------
(***************************************************************************)
(* Admissions and refusals have their reasons, for any stack of guards,    *)
(* any options, any requests and tokens, and however long a request takes; *)
(* and what CreateToken has made is admitted where its secret is trusted.  *)
(*                                                                         *)
(* The argument: a guard that was passed had its reason, which later       *)
(* moments of the same request do not take away; the role in the Context   *)
(* is the one that the guards passed so far account for.  What the options *)
(* of JWT come to is proved by induction over their list (LeastNumber is   *)
(* the induction): the last option that writes a field has its say.        *)
(***************************************************************************)
EXTENDS Auth, WellFoundedInduction, TLAPS

TokenTimes(token) == {token.exp, token.nbf, token.iat} \subseteq Times

TimesKnown ==
  \A p \in Places : request.carried[p].kind = "token" => TokenTimes(request.carried[p])

Passed == \A j \in 1..(at - 1) : Accepts(j, arrived, now)

Parsed ==
  /\ at <= Len(stack)
  /\ stack[at].kind = "jwt"
  /\ ~Skips(stack[at])
  /\ \E t \in arrived..now : Parses(Config(stack[at]), Presented(stack[at]), t)

Answered ==
  \/ answer.status = 200 /\ at > Len(stack)
  \/ /\ answer.status # 200
     /\ at <= Len(stack)
     /\ ~Accepts(at, now, arrived)
     /\ answer = Refusal(at)

Shape ==
  /\ now \in Nat \ {0} /\ arrived \in Nat /\ at \in Nat \ {0}
  /\ stack \in Stacks
  /\ \A token \in issued : TokenTimes(token)
  /\ pc \in {"idle", "guard", "claims", "answered"}
  /\ pc = "idle" => at = 1 /\ role = None

Way ==
  pc # "idle" =>
    /\ arrived <= now
    /\ at <= Len(stack) + 1
    /\ TimesKnown
    /\ role = RoleBefore(at)
    /\ Passed

IInv ==
  /\ Shape
  /\ Way
  /\ pc = "claims" => Parsed
  /\ pc = "answered" => Answered

----------------------------------------------------------------------------
(* What guards think depends on the request and the stack only. *)

LEMMA RoleStable ==
  ASSUME UNCHANGED <<stack, request>>, NEW i
  PROVE  RoleBefore(i)' = RoleBefore(i)
BY DEF RoleBefore, RoleFrom, Knows, Skips, Presented

LEMMA AcceptsStable ==
  ASSUME UNCHANGED <<stack, request>>, NEW i, NEW early, NEW late
  PROVE  Accepts(i, early, late)' = Accepts(i, early, late)
<1>1. RoleBefore(i)' = RoleBefore(i)
  BY RoleStable
<1>2. QED
  BY <1>1 DEF Accepts, Skips, Presented

(* The role before guard i + 1 is the one that guard i has found, if it    *)
(* knows one.                                                              *)
LEMMA RoleStep ==
  ASSUME NEW i \in Nat \ {0}
  PROVE  RoleBefore(i + 1) = IF Knows(i) THEN RoleFrom(i) ELSE RoleBefore(i)
<1>. DEFINE known(n) == {j \in 1..(n - 1) : Knows(j)}
<1>1. CASE Knows(i)
  <2>1. i \in known(i + 1) /\ \A k \in known(i + 1) : k <= i
    BY <1>1
  <2>2. (CHOOSE j \in known(i + 1) : \A k \in known(i + 1) : k <= j) = i
    <3>. DEFINE top == CHOOSE j \in known(i + 1) : \A k \in known(i + 1) : k <= j
    <3>1. top \in known(i + 1) /\ \A k \in known(i + 1) : k <= top
      BY <2>1
    <3>2. top <= i /\ i <= top /\ top \in Nat
      BY <2>1, <3>1
    <3>3. QED
      BY <3>2
  <2>3. known(i + 1) # {}
    BY <2>1
  <2>. HIDE DEF known
  <2>4. RoleBefore(i + 1) = RoleFrom(CHOOSE j \in known(i + 1) : \A k \in known(i + 1) : k <= j)
    BY <2>3 DEF RoleBefore, known
  <2>5. QED
    BY <1>1, <2>2, <2>4
<1>2. CASE ~Knows(i)
  <2>1. known(i + 1) = known(i)
    BY <1>2
  <2>. HIDE DEF known
  <2>2. \A n \in Nat : RoleBefore(n) = IF known(n) = {} THEN None
          ELSE RoleFrom(CHOOSE j \in known(n) : \A k \in known(n) : k <= j)
    BY DEF RoleBefore, known
  <2>3. RoleBefore(i + 1) = RoleBefore(i)
    BY <2>1, <2>2
  <2>4. QED
    BY <1>2, <2>3
<1>3. QED
  BY <1>1, <1>2

(* The role before the first guard. *)
LEMMA NoRoleFirst == RoleBefore(1) = None
BY DEF RoleBefore

LEMMA PresentedTimes ==
  ASSUME NEW guard, TimesKnown, Presented(guard).kind = "token"
  PROVE  TokenTimes(Presented(guard))
<1>. DEFINE place == Config(guard).lookup
<1>1. Absent.kind # "token" /\ Garbage.kind # "token"
  BY DEF Absent, Garbage
<1>2. Presented(guard) # Absent /\ Presented(guard) # Garbage
  BY <1>1
<1>. HIDE DEF place
<1>3. \/ Presented(guard) = Absent
      \/ place \in Places /\ Presented(guard) \in {request.carried[place], Garbage}
  BY DEF Presented, Extracted, Bare, place
<1>4. QED
  BY <1>1, <1>2, <1>3 DEF TimesKnown

LEMMA TimelyLater ==
  ASSUME NEW token, TokenTimes(token), NEW early, NEW late \in Nat, NEW later \in Nat,
         late <= later, Timely(token, early, late)
  PROVE  Timely(token, early, later)
BY AuthConstants DEF Timely, TokenTimes, Times

(* What was accepted stays accepted as time passes. *)
LEMMA AcceptsLater ==
  ASSUME NEW i, NEW early, NEW late \in Nat, NEW later \in Nat, late <= later,
         TimesKnown, Accepts(i, early, late)
  PROVE  Accepts(i, early, later)
<1>1. CASE /\ stack[i].kind = "jwt"
           /\ Genuine(Config(stack[i]), Presented(stack[i]))
           /\ Timely(Presented(stack[i]), early, late)
           /\ Config(stack[i]).onSuccess = "role" => Presented(stack[i]).role # None
  <2>1. TokenTimes(Presented(stack[i]))
    BY <1>1, PresentedTimes DEF Genuine
  <2>2. Timely(Presented(stack[i]), early, later)
    BY <1>1, <2>1, TimelyLater
  <2>3. QED
    BY <1>1, <2>2 DEF Accepts
<1>2. QED
  BY <1>1 DEF Accepts

LEMMA RefusalStable ==
  ASSUME UNCHANGED <<stack, request>>, NEW i
  PROVE  Refusal(i)' = Refusal(i)
<1>1. RoleBefore(i)' = RoleBefore(i)
  BY RoleStable
<1>2. QED
  BY <1>1 DEF Refusal

----------------------------------------------------------------------------
(* The two ways out of a guard. *)

Inside == pc \in {"guard", "claims"} /\ at <= Len(stack)

LEMMA PassStep ==
  ASSUME IInv, Inside, NEW r, Pass(r), Accepts(at, arrived, now),
         r = IF Knows(at) THEN RoleFrom(at) ELSE role
  PROVE  IInv'
<1>. USE DEF IInv, Inside, Pass
<1>1. UNCHANGED <<stack, request>> /\ at \in Nat \ {0} /\ Len(stack) \in Nat
  BY AuthConstants DEF Shape
<1>2. role' = RoleBefore(at)'
  <2>1. r = RoleBefore(at + 1)
    BY <1>1, RoleStep DEF Way
  <2>2. RoleBefore(at)' = RoleBefore(at + 1)
    BY <1>1, RoleStable
  <2>3. QED
    BY <2>1, <2>2
<1>3. Passed'
  <2>1. \A j \in 1..at : Accepts(j, arrived, now)
    BY <1>1 DEF Way, Passed
  <2>2. \A j \in 1..at : Accepts(j, arrived, now)'
    BY <1>1, <2>1, AcceptsStable
  <2>3. at' - 1 = at
    BY <1>1
  <2>4. QED
    BY <2>2, <2>3 DEF Passed
<1>4. Way'
  BY <1>1, <1>2, <1>3 DEF Way, TimesKnown
<1>5. Shape'
  BY <1>1 DEF Shape
<1>6. QED
  BY <1>4, <1>5

Refused ==
  /\ pc' = "answered"
  /\ UNCHANGED <<now, issued, stack, request, arrived, at, role>>
  /\ answer' = Refusal(at)

LEMMA RefuseStep ==
  ASSUME IInv, Inside, Refused, ~Accepts(at, now, arrived)
  PROVE  IInv'
<1>. USE DEF IInv, Inside, Refused
<1>1. UNCHANGED <<stack, request, now, arrived, at>>
  OBVIOUS
<1>2. Answered'
  <2>1. ~Accepts(at, now, arrived)' /\ Refusal(at)' = Refusal(at)
    BY <1>1, AcceptsStable, RefusalStable
  <2>2. answer'.status # 200
    BY DEF Refusal
  <2>3. QED
    BY <1>1, <2>1, <2>2 DEF Answered
<1>3. Way'
  <2>1. \A j \in 1..(at - 1) : Accepts(j, arrived, now)'
    BY <1>1, AcceptsStable DEF Way, Passed
  <2>2. RoleBefore(at)' = RoleBefore(at)
    BY <1>1, RoleStable
  <2>3. QED
    BY <1>1, <2>1, <2>2 DEF Way, Passed, TimesKnown
<1>4. QED
  BY <1>1, <1>2, <1>3 DEF Shape

----------------------------------------------------------------------------
(* One lemma for each kind of guard. *)

LEMMA SkipStep == IInv /\ Skip => IInv'
<1>. SUFFICES ASSUME IInv, Skip PROVE IInv'
  OBVIOUS
<1>1. Inside /\ Pass(role) /\ ~Knows(at)
  BY DEF Skip, Inside, Knows
<1>2. Accepts(at, arrived, now)
  BY DEF Skip, Accepts
<1>3. QED
  BY <1>1, <1>2, PassStep

LEMMA ParseStep == IInv /\ Parse => IInv'
<1>. SUFFICES ASSUME IInv, Parse PROVE IInv'
  OBVIOUS
<1>. USE DEF IInv, Parse, Guarding
<1>1. UNCHANGED <<stack, request, arrived, now, at, role>> /\ pc = "guard"
  OBVIOUS
<1>2. Parsed'
  <2>1. now \in arrived..now
    BY <1>1 DEF Shape, Way
  <2>2. QED
    BY <1>1, <2>1 DEF Parsed, Skips, Presented
<1>3. Way'
  <2>1. \A j \in 1..(at - 1) : Accepts(j, arrived, now)'
    BY <1>1, AcceptsStable DEF Way, Passed
  <2>2. RoleBefore(at)' = RoleBefore(at)
    BY <1>1, RoleStable
  <2>3. QED
    BY <1>1, <2>1, <2>2 DEF Way, Passed, TimesKnown
<1>4. QED
  BY <1>1, <1>2, <1>3 DEF Shape

(* A token that does not parse now is not one that had to be accepted. *)
LEMMA ParseFailsStep == IInv /\ ParseFails => IInv'
<1>. SUFFICES ASSUME IInv, ParseFails PROVE IInv'
  OBVIOUS
<1>. DEFINE guard == stack[at]
            token == Presented(guard)
<1>1. Inside /\ Refuse(401, FALSE) /\ guard.kind = "jwt" /\ ~Skips(guard)
      /\ ~Parses(Config(guard), token, now)
  BY DEF ParseFails, Guarding, Inside
<1>2. now \in Nat \ {0} /\ arrived \in Nat /\ arrived <= now /\ TimesKnown
  BY <1>1 DEF IInv, Shape, Way, Inside
<1>3. ~(Genuine(Config(guard), token) /\ Timely(token, now, arrived))
  <2>1. SUFFICES ASSUME Genuine(Config(guard), token), Timely(token, now, arrived)
                 PROVE  Parses(Config(guard), token, now)
    BY <1>1
  <2>2. TokenTimes(token)
    BY <1>2, <2>1, PresentedTimes DEF Genuine
  <2>. HIDE DEF guard, token
  <2>3. token.key = KeyFor(Config(guard)) /\ KeyFor(Config(guard)) # None
    BY <2>1 DEF Genuine, KeyFor, HMAC, RSA
  <2>4. /\ token.exp \notin {None, 0} => now < token.exp
        /\ token.nbf \notin {None, 0} => now >= token.nbf
    BY <1>2, <2>1, <2>2, AuthConstants DEF Timely, TokenTimes, Times
  <2>5. QED
    BY <2>1, <2>3, <2>4 DEF Genuine, Parses
<1>4. ~Accepts(at, now, arrived)
  BY <1>1, <1>3 DEF Accepts
<1>5. Refused
  BY <1>1 DEF Refusal, Refuse, Refused
<1>6. QED
  BY <1>1, <1>4, <1>5, RefuseStep

(* The library has seen that the token was not expired and had begun, the  *)
(* guard itself that it was issued in the past: together they cover what   *)
(* is asked of a token.                                                    *)
LEMMA CheckClaimsStep == IInv /\ CheckClaims => IInv'
<1>. SUFFICES ASSUME IInv, CheckClaims PROVE IInv'
  OBVIOUS
<1>. DEFINE guard == stack[at]
            token == Presented(guard)
<1>1. Inside /\ guard.kind = "jwt" /\ ~Skips(guard) /\ pc = "claims"
  BY DEF IInv, CheckClaims, Parsed, Inside
<1>2. now \in Nat \ {0} /\ arrived \in Nat /\ arrived <= now /\ TimesKnown
  BY <1>1 DEF IInv, Shape, Way
<1>3. PICK t \in arrived..now : Parses(Config(guard), token, t)
  BY <1>1 DEF IInv, Parsed
<1>4. TokenTimes(token)
  BY <1>2, <1>3, PresentedTimes DEF Parses
<1>5. CASE ClaimsHold(token, now) /\ Succeeds(Config(guard), token)
  <2>1. Genuine(Config(guard), token)
    <3>. HIDE DEF guard, token
    <3>1. QED
      BY <1>3 DEF Parses, Genuine, KeyFor
  <2>2. Timely(token, arrived, now)
    <3>. HIDE DEF guard, token
    <3>1. token.exp # None => arrived < token.exp
      BY <1>2, <1>3, <1>4, <1>5, AuthConstants DEF Parses, ClaimsHold, TokenTimes, Times
    <3>2. /\ token.nbf # None => token.nbf <= now
          /\ token.iat # None => token.iat <= now
      BY <1>2, <1>4, <1>5, AuthConstants DEF ClaimsHold, TokenTimes, Times
    <3>3. QED
      BY <3>1, <3>2 DEF Timely
  <2>3. Accepts(at, arrived, now)
    BY <1>1, <1>5, <2>1, <2>2 DEF Accepts, Succeeds
  <2>4. PICK r : Pass(r) /\ r = IF Config(guard).onSuccess = "role" THEN token.role ELSE role
    BY <1>5 DEF CheckClaims
  <2>5. r = IF Knows(at) THEN RoleFrom(at) ELSE role
    BY <1>1, <2>4 DEF Knows, RoleFrom
  <2>6. QED
    BY <1>1, <2>3, <2>4, <2>5, PassStep
<1>6. CASE ~(ClaimsHold(token, now) /\ Succeeds(Config(guard), token))
  <2>1. ~(Timely(token, now, arrived) /\ Succeeds(Config(guard), token))
    <3>. HIDE DEF guard, token
    <3>1. Timely(token, now, arrived) => ClaimsHold(token, now)
      BY <1>2, <1>4, AuthConstants DEF Timely, ClaimsHold, TokenTimes, Times
    <3>2. QED
      BY <1>6, <3>1
  <2>2. ~Accepts(at, now, arrived)
    BY <1>1, <2>1 DEF Accepts, Succeeds
  <2>3. Refused
    BY <1>1, <1>6 DEF CheckClaims, Refusal, Refuse, Refused
  <2>4. QED
    BY <1>1, <2>2, <2>3, RefuseStep
<1>7. QED
  BY <1>5, <1>6

LEMMA KeyAuthStep == IInv /\ KeyAuth => IInv'
<1>. SUFFICES ASSUME IInv, KeyAuth PROVE IInv'
  OBVIOUS
<1>. DEFINE guard == stack[at]
            key == Presented(guard)
<1>1. Inside /\ guard.kind = "key" /\ ~Skips(guard)
  BY DEF KeyAuth, Guarding, Inside
<1>2. CASE Verdict(key, "key") = "valid"
  <2>1. Accepts(at, arrived, now)
    BY <1>1, <1>2 DEF Accepts, Verdict
  <2>2. Pass(key.role) /\ key.role = IF Knows(at) THEN RoleFrom(at) ELSE role
    BY <1>1, <1>2 DEF KeyAuth, Knows, RoleFrom
  <2>3. QED
    BY <1>1, <2>1, <2>2, PassStep
<1>3. CASE Verdict(key, "key") # "valid"
  <2>1. ~Accepts(at, now, arrived)
    BY <1>1, <1>3 DEF Accepts, Verdict
  <2>2. Refused
    BY <1>1, <1>3 DEF KeyAuth, Refusal, Refuse, Refused
  <2>3. QED
    BY <1>1, <2>1, <2>2, RefuseStep
<1>4. QED
  BY <1>2, <1>3

LEMMA BasicAuthStep == IInv /\ BasicAuth => IInv'
<1>. SUFFICES ASSUME IInv, BasicAuth PROVE IInv'
  OBVIOUS
<1>. DEFINE creds == request.carried[Authorization]
<1>1. Inside /\ stack[at].kind = "basic" /\ ~Skips(stack[at])
  BY DEF BasicAuth, Guarding, Inside
<1>2. CASE Reads(creds) /\ creds.verdict = "valid" /\ Pass(creds.role)
  <2>1. Accepts(at, arrived, now)
    BY <1>1, <1>2 DEF Accepts
  <2>2. creds.role = IF Knows(at) THEN RoleFrom(at) ELSE role
    BY <1>1 DEF Knows, RoleFrom
  <2>3. QED
    BY <1>1, <1>2, <2>1, <2>2, PassStep
<1>3. CASE ~(Reads(creds) /\ creds.verdict = "valid")
  <2>1. ~Accepts(at, now, arrived)
    BY <1>1, <1>3 DEF Accepts
  <2>2. CASE creds.kind = "empty" /\ Refuse(401, TRUE)
    <3>1. Refused
      BY <1>1, <2>2 DEF Refusal, Reads, Refuse, Refused
    <3>2. QED
      BY <1>1, <2>1, <3>1, RefuseStep
  <2>3. CASE creds.kind # "empty" /\ ~Reads(creds) /\ Refuse(401, FALSE)
    <3>1. Refused
      BY <1>1, <2>3 DEF Refusal, Refuse, Refused
    <3>2. QED
      BY <1>1, <2>1, <3>1, RefuseStep
  <2>4. CASE Reads(creds) /\ creds.verdict = "error" /\ Refuse(500, FALSE)
    <3>1. Refused
      BY <1>1, <2>4 DEF Refusal, Reads, Refuse, Refused
    <3>2. QED
      BY <1>1, <2>1, <3>1, RefuseStep
  <2>5. CASE Reads(creds) /\ creds.verdict = "invalid" /\ Refuse(401, TRUE)
    <3>1. Refused
      BY <1>1, <2>5 DEF Refusal, Reads, Refuse, Refused
    <3>2. QED
      BY <1>1, <2>1, <3>1, RefuseStep
  <2>6. QED
    BY <1>3, <2>2, <2>3, <2>4, <2>5 DEF BasicAuth
<1>4. QED
  BY <1>2, <1>3 DEF BasicAuth, Reads

LEMMA RequireRoleStep == IInv /\ RequireRole => IInv'
<1>. SUFFICES ASSUME IInv, RequireRole PROVE IInv'
  OBVIOUS
<1>1. Inside /\ stack[at].kind = "role" /\ ~Skips(stack[at])
  BY DEF RequireRole, Guarding, Inside
<1>2. role = RoleBefore(at)
  BY <1>1 DEF IInv, Way, Inside
<1>3. CASE role # None /\ role \in stack[at].roles
  <2>1. Accepts(at, arrived, now)
    BY <1>1, <1>2, <1>3 DEF Accepts
  <2>2. Pass(role) /\ ~Knows(at)
    BY <1>1, <1>3 DEF RequireRole, Knows
  <2>3. QED
    BY <1>1, <2>1, <2>2, PassStep
<1>4. CASE ~(role # None /\ role \in stack[at].roles)
  <2>1. ~Accepts(at, now, arrived)
    BY <1>1, <1>2, <1>4 DEF Accepts
  <2>2. Refused
    BY <1>1, <1>2, <1>4 DEF RequireRole, RoleRefusal, Refusal, Refuse, Refused
  <2>3. QED
    BY <1>1, <2>1, <2>2, RefuseStep
<1>5. QED
  BY <1>3, <1>4

----------------------------------------------------------------------------
(* Around the guards. *)

LEMMA InvInit == Init => IInv
BY AuthConstants DEF Init, IInv, Shape, Way

LEMMA HandleStep == IInv /\ Handle => IInv'
<1>. SUFFICES ASSUME IInv, Handle PROVE IInv'
  OBVIOUS
<1>. USE DEF IInv, Handle, Refuse
<1>1. UNCHANGED <<stack, request, now, arrived, at, role>> /\ pc = "guard"
  OBVIOUS
<1>2. Way'
  <2>1. \A j \in 1..(at - 1) : Accepts(j, arrived, now)'
    BY <1>1, AcceptsStable DEF Way, Passed
  <2>2. RoleBefore(at)' = RoleBefore(at)
    BY <1>1, RoleStable
  <2>3. QED
    BY <1>1, <2>1, <2>2 DEF Way, Passed, TimesKnown
<1>3. QED
  BY <1>1, <1>2 DEF Shape, Answered

(* Time only widens the moments in which a guard may have had its reason.  *)
LEMMA TickStep == IInv /\ Tick => IInv'
<1>. SUFFICES ASSUME IInv, Tick PROVE IInv'
  OBVIOUS
<1>. USE DEF IInv, Tick
<1>1. /\ UNCHANGED <<stack, request, arrived, at, role, pc, issued>> /\ now' = now + 1
      /\ pc # "answered" /\ now \in Nat /\ now' \in Nat
  BY DEF Shape
<1>2. Shape'
  BY <1>1 DEF Shape
<1>3. Way'
  <2>1. SUFFICES ASSUME pc # "idle" PROVE Way'
    BY <1>1 DEF Way
  <2>2. \A j \in 1..(at - 1) : Accepts(j, arrived, now + 1)
    BY <1>1, <2>1, AcceptsLater DEF Way, Passed
  <2>3. \A j \in 1..(at - 1) : Accepts(j, arrived, now)'
    BY <1>1, <2>2, AcceptsStable
  <2>4. RoleBefore(at)' = RoleBefore(at)
    BY <1>1, RoleStable
  <2>5. arrived <= now'
    BY <1>1, <2>1 DEF Way, Shape
  <2>6. QED
    BY <1>1, <2>1, <2>3, <2>4, <2>5 DEF Way, Passed, TimesKnown
<1>4. pc = "claims" => Parsed'
  <2>1. SUFFICES ASSUME pc = "claims" PROVE Parsed'
    OBVIOUS
  <2>2. PICK t \in arrived..now : Parses(Config(stack[at]), Presented(stack[at]), t)
    BY <2>1 DEF Parsed
  <2>3. t \in arrived'..now'
    BY <1>1 DEF Shape
  <2>4. Parses(Config(stack[at]), Presented(stack[at]), t)'
    BY <1>1, <2>2 DEF Presented
  <2>5. QED
    BY <1>1, <2>1, <2>3, <2>4 DEF Parsed, Skips
<1>5. QED
  BY <1>1, <1>2, <1>3, <1>4

LEMMA ArriveStep == IInv /\ Arrive => IInv'
<1>. SUFFICES ASSUME IInv, Arrive PROVE IInv'
  OBVIOUS
<1>. USE DEF IInv
<1>1. /\ UNCHANGED <<now, issued, stack, at, role>> /\ arrived' = now /\ pc' = "guard"
      /\ at = 1 /\ role = None
  BY DEF Arrive, Shape
<1>2. PICK r \in Requests, token \in issued \cup Foreign : request' = Filled(r, token)
  BY DEF Arrive
<1>3. TokenTimes(token)
  BY AuthConstants DEF Shape, TokenTimes
<1>4. TimesKnown'
  <2>1. \A p \in Places : Filled(r, token).carried[p].kind = "token"
          => TokenTimes(Filled(r, token).carried[p])
    BY <1>3 DEF Filled, Token, TokenTimes
  <2>2. QED
    BY <1>2, <2>1 DEF TimesKnown
<1>5. RoleBefore(at)' = None
  BY <1>1 DEF RoleBefore
<1>6. Passed'
  BY <1>1 DEF Passed
<1>7. QED
  BY <1>1, <1>4, <1>5, <1>6, AuthConstants DEF Shape, Way

LEMMA IssueStep == IInv /\ Issue => IInv'
<1>. SUFFICES ASSUME IInv, Issue PROVE IInv'
  OBVIOUS
<1>1. PICK claims \in Claims, config \in Issuers :
        /\ CreateToken(claims, config) # None
        /\ issued' = issued \cup {CreateToken(claims, config)}
  BY DEF Issue
<1>2. TokenTimes(CreateToken(claims, config))
  BY <1>1, AuthConstants DEF CreateToken, Token, TokenTimes
<1>3. QED
  BY <1>1, <1>2 DEF Issue, IInv, Shape, Way

LEMMA LeaveStep == IInv /\ Leave => IInv'
BY DEF Leave, IInv, Shape, Way

LEMMA InvNext == IInv /\ [Next]_vars => IInv'
<1>1. CASE UNCHANGED vars
  <2>1. SUFFICES ASSUME IInv, UNCHANGED vars PROVE IInv'
    BY <1>1
  <2>2. UNCHANGED <<now, issued, stack, request, arrived, pc, at, role, answer>>
    BY <2>1 DEF vars
  <2>3. /\ \A j : Accepts(j, arrived, now)' = Accepts(j, arrived, now)
        /\ Accepts(at, now, arrived)' = Accepts(at, now, arrived)
        /\ RoleBefore(at)' = RoleBefore(at) /\ Refusal(at)' = Refusal(at)
    BY <2>2, AcceptsStable, RoleStable, RefusalStable
  <2>4. Way' /\ Shape'
    BY <2>1, <2>2, <2>3 DEF IInv, Way, Passed, TimesKnown, Shape
  <2>5. Parsed' = Parsed
    BY <2>2 DEF Parsed, Skips, Presented
  <2>6. Answered' = Answered
    BY <2>2, <2>3 DEF Answered
  <2>7. QED
    BY <2>1, <2>2, <2>4, <2>5, <2>6 DEF IInv
<1>2. QED
  BY <1>1, SkipStep, ParseStep, ParseFailsStep, CheckClaimsStep, KeyAuthStep, BasicAuthStep,
     RequireRoleStep, HandleStep, ArriveStep, IssueStep, LeaveStep, TickStep DEF Next

LEMMA InvHolds == Spec => []IInv
BY InvInit, InvNext, PTL DEF Spec

(* Whoever reaches a handler had a reason to pass each of its guards, at   *)
(* some time while the request was under way (jwt.go:247 to jwt.go:283,    *)
(* rbac.go:29).                                                            *)
THEOREM AdmissionsHaveReasons == Spec => []AdmittedWithReason
<1>1. IInv => AdmittedWithReason
  BY AuthConstants DEF IInv, Shape, Way, Passed, Answered, AdmittedWithReason
<1>2. QED
  BY <1>1, InvHolds, PTL

(* Whoever is refused is told so by the outermost guard that had a reason, *)
(* with the status of that reason (key_auth.go:107, basic_auth.go:56).     *)
THEOREM RefusalsHaveReasons == Spec => []RefusedWithReason
<1>1. IInv => RefusedWithReason
  <2>1. SUFFICES ASSUME IInv, pc = "answered", answer.status # 200
                 PROVE  /\ at \in 1..Len(stack)
                        /\ \A j \in 1..(at - 1) : Accepts(j, arrived, now)
                        /\ ~Accepts(at, now, arrived)
                        /\ answer = Refusal(at)
    BY DEF RefusedWithReason
  <2>2. QED
    BY <2>1, AuthConstants DEF IInv, Shape, Way, Passed, Answered
<1>2. QED
  BY <1>1, InvHolds, PTL

----------------------------------------------------------------------------
(* The options of JWT, by induction over their list. *)

(* A set of numbers that has an element has a least one.                   *)
LEMMA LeastNumber ==
  ASSUME NEW T \in SUBSET Nat, T # {}
  PROVE  \E k \in T : \A j \in T : k <= j
<1>1. PICK R : R = OpToRel(<, Nat)
  OBVIOUS
<1>2. IsWellFoundedOn(R, Nat)
  BY <1>1, NatLessThanWellFounded
<1>3. PICK k \in T : \A j \in T : <<j, k>> \notin R
  BY <1>2, WFMin
<1>4. \A i, j \in Nat : i < j => <<i, j>> \in R
  BY <1>1 DEF OpToRel
<1>5. ASSUME NEW j \in T PROVE k <= j
  <2>1. j \in Nat /\ k \in Nat
    OBVIOUS
  <2>2. ~(j < k)
    BY <1>3, <1>4, <2>1
  <2>3. QED
    BY <2>1, <2>2
<1>6. QED
  BY <1>5

(* A set that holds 0, and with a number the next one up to m, holds every *)
(* number up to m: the induction that the lemmas below use.                *)
LEMMA UpTo ==
  ASSUME NEW m \in Nat, NEW S, 0 \in S, \A n \in 1..m : n - 1 \in S => n \in S
  PROVE  \A n \in 0..m : n \in S
<1>. DEFINE T == {n \in 0..m : n \notin S}
<1>1. SUFFICES ASSUME T # {} PROVE FALSE
  OBVIOUS
<1>2. T \in SUBSET Nat
  OBVIOUS
<1>. HIDE DEF T
<1>3. PICK k \in T : \A j \in T : k <= j
  BY <1>1, <1>2, LeastNumber
<1>4. k \in 0..m /\ k \notin S
  BY <1>3 DEF T
<1>5. k \in 1..m /\ k - 1 \in 0..m
  BY <1>4
<1>6. k - 1 \notin S
  BY <1>4, <1>5
<1>7. k - 1 \in T
  BY <1>5, <1>6 DEF T
<1>8. k <= k - 1
  BY <1>3, <1>7
<1>9. QED
  BY <1>4, <1>8

(* A set of numbers up to m that has an element has a greatest one.        *)
LEMMA GreatestNumber ==
  ASSUME NEW m \in Nat, NEW T \in SUBSET (1..m), T # {}
  PROVE  \E k \in T : \A j \in T : j <= k
<1>. DEFINE U == {n \in 0..m : m - n \in T}
<1>1. PICK t \in T : TRUE
  OBVIOUS
<1>2. m - t \in 0..m /\ m - (m - t) = t
  OBVIOUS
<1>3. m - t \in U /\ U \in SUBSET Nat
  BY <1>1, <1>2
<1>. HIDE DEF U
<1>4. PICK k \in U : \A j \in U : k <= j
  BY <1>3, LeastNumber
<1>5. k \in 0..m /\ m - k \in T
  BY <1>4 DEF U
<1>6. ASSUME NEW j \in T PROVE j <= m - k
  <2>1. m - j \in 0..m /\ m - (m - j) = j
    OBVIOUS
  <2>2. m - j \in U
    BY <1>6, <2>1 DEF U
  <2>3. k <= m - j
    BY <1>4, <2>2
  <2>4. QED
    BY <1>5, <2>1, <2>3
<1>7. QED
  BY <1>5, <1>6

(* The configs that the options leave one after the other.                 *)
OneByOne(f, options, m) ==
  [n \in 0..m |-> IF n = 0 THEN DefaultJWTConfig ELSE Apply(f[n - 1], options[n])]

(* After is well defined: each config comes from the one before it.        *)
LEMMA AfterIs ==
  ASSUME NEW options, Len(options) \in Nat
  PROVE  After(options) = OneByOne(After(options), options, Len(options))
<1>. DEFINE L == Len(options)
            S == {n \in 0..L : \E f : f = OneByOne(f, options, n)}
<1>1. 0 \in S
  <2>. DEFINE f == [n \in 0..0 |-> DefaultJWTConfig]
  <2>1. f = OneByOne(f, options, 0)
    BY DEF OneByOne
  <2>2. QED
    BY <2>1
<1>2. ASSUME NEW n \in 1..L, n - 1 \in S PROVE n \in S
  <2>1. PICK f : f = OneByOne(f, options, n - 1)
    BY <1>2
  <2>. DEFINE g == [i \in 0..n |-> IF i = n THEN Apply(f[n - 1], options[n]) ELSE f[i]]
  <2>2. ASSUME NEW i \in 0..n
        PROVE  g[i] = IF i = 0 THEN DefaultJWTConfig ELSE Apply(g[i - 1], options[i])
    <3>1. CASE i = n
      <4>1. n - 1 \in 0..n /\ n - 1 # n /\ i # 0
        BY <3>1
      <4>2. g[n - 1] = f[n - 1]
        BY <4>1
      <4>3. QED
        BY <3>1, <4>1, <4>2
    <3>2. CASE i # n
      <4>1. i \in 0..(n - 1)
        BY <3>2
      <4>2. f[i] = IF i = 0 THEN DefaultJWTConfig ELSE Apply(f[i - 1], options[i])
        BY <2>1, <4>1 DEF OneByOne
      <4>3. g[i] = f[i]
        BY <3>2
      <4>4. i # 0 => i - 1 \in 0..n /\ i - 1 # n
        BY <4>1
      <4>5. i # 0 => g[i - 1] = f[i - 1]
        BY <4>4
      <4>6. QED
        BY <4>2, <4>3, <4>5
    <3>3. QED
      BY <3>1, <3>2
  <2>3. g = OneByOne(g, options, n)
    BY <2>2 DEF OneByOne
  <2>4. QED
    BY <2>3
<1>3. L \in S
  <2>. HIDE DEF S
  <2>1. \A n \in 0..L : n \in S
    BY <1>1, <1>2, UpTo
  <2>2. QED
    BY <2>1
<1>4. PICK f : f = OneByOne(f, options, L)
  BY <1>3
<1>5. After(options) = CHOOSE g : g = OneByOne(g, options, L)
  BY DEF After, OneByOne
<1>6. QED
  BY <1>4, <1>5

KeyNames == {"secret", "publicKey", "pem", "jks", "method"}
OptionNames == KeyNames \cup {"lookup", "scheme", "success", "skipper"}
ConfigFields ==
  {"lookup", "scheme", "secret", "publicKey", "method", "onSuccess", "skipper"}

(* The field each of the other options writes, and it alone.               *)
Writes == {<<"lookup", "lookup">>, <<"scheme", "scheme">>, <<"success", "onSuccess">>}

(* A record of which one field is replaced.                                *)
LEMMA FieldReplaced ==
  ASSUME NEW c, NEW f \in DOMAIN c, NEW v, NEW d, d = [c EXCEPT ![f] = v]
  PROVE  /\ DOMAIN d = DOMAIN c
         /\ d[f] = v
         /\ \A g \in DOMAIN c \ {f} : d[g] = c[g]
OBVIOUS

(* What one option does to the config.                                     *)
LEMMA ApplyDoes ==
  ASSUME NEW c, DOMAIN c = ConfigFields, NEW option, option[1] \in OptionNames
  PROVE  /\ DOMAIN Apply(c, option) = ConfigFields
         /\ \A w \in Writes : Apply(c, option)[w[2]] =
              IF option[1] = w[1] THEN option[2] ELSE c[w[2]]
         /\ option[1] = "secret" => /\ Apply(c, option).secret = option[2]
                                    /\ Apply(c, option).method = "HS256"
         /\ option[1] \notin KeyNames => /\ Apply(c, option).secret = c.secret
                                         /\ Apply(c, option).method = c.method
<1>1. PICK d : d = Apply(c, option)
  OBVIOUS
<1>2. CASE option[1] \in KeyNames \ {"method"}
  <2>1. PICK e : /\ DOMAIN e = ConfigFields
                 /\ \A f \in ConfigFields \ {"secret", "publicKey"} : e[f] = c[f]
                 /\ option[1] = "secret" => e["secret"] = option[2]
                 /\ \/ option[1] # "secret" /\ d = e
                    \/ \E m : /\ d = [e EXCEPT !["method"] = m]
                              /\ option[1] = "secret" => m = "HS256"
    <3>1. CASE option[1] = "secret"
      <4>1. PICK e : e = [c EXCEPT !["secret"] = option[2]]
        OBVIOUS
      <4>2. d = [e EXCEPT !["method"] = "HS256"]
        BY <1>1, <3>1, <4>1 DEF Apply, WithKey
      <4>3. /\ DOMAIN e = ConfigFields
            /\ e["secret"] = option[2]
            /\ \A f \in ConfigFields \ {"secret"} : e[f] = c[f]
        BY <4>1 DEF ConfigFields
      <4>4. QED
        BY <4>2, <4>3
    <3>2. CASE option[1] = "publicKey" \/ (option[1] = "pem" /\ option[2] # None)
      <4>1. PICK e : e = [c EXCEPT !["publicKey"] = option[2]]
        OBVIOUS
      <4>2. d = [e EXCEPT !["method"] = "RS256"]
        BY <1>1, <3>2, <4>1 DEF Apply, WithKey
      <4>3. /\ DOMAIN e = ConfigFields
            /\ \A f \in ConfigFields \ {"publicKey"} : e[f] = c[f]
        BY <4>1 DEF ConfigFields
      <4>4. QED
        BY <3>2, <4>2, <4>3
    <3>3. CASE option[1] = "jks"
      <4>1. d = [c EXCEPT !["method"] = "RS256"]
        BY <1>1, <3>3 DEF Apply, WithKey
      <4>2. QED
        BY <3>3, <4>1
    <3>4. CASE option[1] = "pem" /\ option[2] = None
      <4>1. d = c
        BY <1>1, <3>4 DEF Apply, WithKey
      <4>2. QED
        BY <3>4, <4>1
    <3>5. QED
      BY <1>2, <3>1, <3>2, <3>3, <3>4 DEF KeyNames
  <2>2. /\ DOMAIN d = ConfigFields
        /\ \A f \in ConfigFields \ {"secret", "publicKey", "method"} : d[f] = c[f]
        /\ option[1] = "secret" => d["secret"] = option[2] /\ d["method"] = "HS256"
    <3>1. CASE option[1] # "secret" /\ d = e
      BY <2>1, <3>1
    <3>2. ASSUME NEW m, d = [e EXCEPT !["method"] = m], option[1] = "secret" => m = "HS256"
          PROVE  /\ DOMAIN d = ConfigFields
                 /\ \A f \in ConfigFields \ {"secret", "publicKey", "method"} : d[f] = c[f]
                 /\ option[1] = "secret" => d["secret"] = option[2] /\ d["method"] = "HS256"
      <4>1. "method" \in DOMAIN e /\ "secret" \in DOMAIN e
        BY <2>1 DEF ConfigFields
      <4>2. /\ DOMAIN d = DOMAIN e
            /\ d["method"] = m
            /\ \A g \in DOMAIN e \ {"method"} : d[g] = e[g]
        BY <3>2, <4>1, FieldReplaced
      <4>3. QED
        BY <2>1, <3>2, <4>1, <4>2
    <3>3. QED
      BY <2>1, <3>1, <3>2
  <2>3. QED
    BY <1>1, <1>2, <2>2 DEF Writes, KeyNames, ConfigFields
<1>3. CASE option[1] \in {"method", "lookup", "scheme", "success", "skipper"}
  <2>1. PICK f : f = IF option[1] = "success" THEN "onSuccess" ELSE option[1]
    OBVIOUS
  <2>2. d = [c EXCEPT ![f] = option[2]]
    BY <1>1, <1>3, <2>1 DEF Apply
  <2>3. f \in DOMAIN c
    BY <1>3, <2>1 DEF ConfigFields
  <2>4. /\ DOMAIN d = ConfigFields
        /\ d[f] = option[2]
        /\ \A g \in ConfigFields \ {f} : d[g] = c[g]
    BY <2>2, <2>3, FieldReplaced
  <2>5. QED
    BY <1>1, <1>3, <2>1, <2>4 DEF Writes, KeyNames, ConfigFields
<1>4. QED
  BY <1>2, <1>3 DEF OptionNames, KeyNames

(* Of the first n options, the last one that writes a field has its say,   *)
(* and the last one that gives a key, if it gives a secret.                *)
LastHasSay(c, options, n) ==
  /\ DOMAIN c = ConfigFields
  /\ \A w \in Writes :
       /\ (\A k \in 1..n : options[k][1] # w[1]) => c[w[2]] = DefaultJWTConfig[w[2]]
       /\ \A i \in 1..n :
            /\ options[i][1] = w[1]
            /\ \A k \in (i + 1)..n : options[k][1] # w[1]
            => c[w[2]] = options[i][2]
  /\ \A i \in 1..n :
       /\ options[i][1] = "secret"
       /\ \A k \in (i + 1)..n : options[k][1] \notin KeyNames
       => c.secret = options[i][2] /\ c.method = "HS256"

(* One more option leaves it so.                                           *)
LEMMA OneMore ==
  ASSUME NEW options, NEW n \in Nat \ {0}, NEW c, LastHasSay(c, options, n - 1),
         options[n][1] \in OptionNames
  PROVE  LastHasSay(Apply(c, options[n]), options, n)
<1>. DEFINE d == Apply(c, options[n])
<1>1. /\ DOMAIN c = ConfigFields
      BY DEF LastHasSay
<1>2. /\ DOMAIN d = ConfigFields
      /\ \A w \in Writes : d[w[2]] = IF options[n][1] = w[1] THEN options[n][2] ELSE c[w[2]]
      /\ options[n][1] = "secret" => d.secret = options[n][2] /\ d.method = "HS256"
      /\ options[n][1] \notin KeyNames => d.secret = c.secret /\ d.method = c.method
  BY <1>1, ApplyDoes
<1>. HIDE DEF d
<1>3. \A i \in 1..n : i = n \/ i \in 1..(n - 1)
  OBVIOUS
<1>4. \A i \in 1..(n - 1) : n \in (i + 1)..n /\ \A k \in (i + 1)..(n - 1) : k \in (i + 1)..n
  OBVIOUS
<1>5. ASSUME NEW w \in Writes, \A k \in 1..n : options[k][1] # w[1]
      PROVE  d[w[2]] = DefaultJWTConfig[w[2]]
  <2>1. options[n][1] # w[1] /\ \A k \in 1..(n - 1) : options[k][1] # w[1]
    BY <1>5
  <2>2. c[w[2]] = DefaultJWTConfig[w[2]]
    BY <2>1 DEF LastHasSay
  <2>3. QED
    BY <1>2, <2>1, <2>2
<1>6. ASSUME NEW w \in Writes, NEW i \in 1..n, options[i][1] = w[1],
             \A k \in (i + 1)..n : options[k][1] # w[1]
      PROVE  d[w[2]] = options[i][2]
  <2>1. CASE i = n
    BY <1>2, <1>6, <2>1
  <2>2. CASE i \in 1..(n - 1)
    <3>1. options[n][1] # w[1] /\ \A k \in (i + 1)..(n - 1) : options[k][1] # w[1]
      BY <1>4, <1>6, <2>2
    <3>2. c[w[2]] = options[i][2]
      BY <1>6, <2>2, <3>1 DEF LastHasSay
    <3>3. QED
      BY <1>2, <3>1, <3>2
  <2>3. QED
    BY <1>3, <2>1, <2>2
<1>7. ASSUME NEW i \in 1..n, options[i][1] = "secret",
             \A k \in (i + 1)..n : options[k][1] \notin KeyNames
      PROVE  d.secret = options[i][2] /\ d.method = "HS256"
  <2>1. CASE i = n
    BY <1>2, <1>7, <2>1
  <2>2. CASE i \in 1..(n - 1)
    <3>1. /\ options[n][1] \notin KeyNames
          /\ \A k \in (i + 1)..(n - 1) : options[k][1] \notin KeyNames
      BY <1>4, <1>7, <2>2
    <3>2. c.secret = options[i][2] /\ c.method = "HS256"
      BY <1>7, <2>2, <3>1 DEF LastHasSay
    <3>3. QED
      BY <1>2, <3>1, <3>2
  <2>3. QED
    BY <1>3, <2>1, <2>2
<1>8. QED
  BY <1>2, <1>5, <1>6, <1>7 DEF LastHasSay, d

(* The config that all of the options leave.                               *)
LEMMA ConfigIsLast ==
  ASSUME NEW options, Len(options) \in Nat,
         \A k \in 1..Len(options) : options[k][1] \in OptionNames
  PROVE  LastHasSay(After(options)[Len(options)], options, Len(options))
<1>. DEFINE L == Len(options)
            S == {n \in 0..L : LastHasSay(After(options)[n], options, n)}
<1>1. /\ After(options)[0] = DefaultJWTConfig
      /\ \A n \in 1..L : After(options)[n] = Apply(After(options)[n - 1], options[n])
  <2>1. PICK f : f = After(options)
    OBVIOUS
  <2>2. f = OneByOne(f, options, L)
    BY <2>1, AfterIs
  <2>3. \A n \in 0..L : f[n] = IF n = 0 THEN DefaultJWTConfig ELSE Apply(f[n - 1], options[n])
    BY <2>2 DEF OneByOne
  <2>4. QED
    BY <2>1, <2>3
<1>2. 0 \in S
  <2>1. LastHasSay(DefaultJWTConfig, options, 0)
    BY DEF LastHasSay, DefaultJWTConfig, ConfigFields
  <2>2. QED
    BY <1>1, <2>1
<1>3. ASSUME NEW n \in 1..L, n - 1 \in S PROVE n \in S
  <2>1. LastHasSay(After(options)[n - 1], options, n - 1)
    BY <1>3
  <2>2. LastHasSay(After(options)[n], options, n)
    BY <1>1, <2>1, OneMore
  <2>3. QED
    BY <2>2
<1>4. L \in S
  <2>. HIDE DEF S
  <2>1. \A n \in 0..L : n \in S
    BY <1>2, <1>3, UpTo
  <2>2. QED
    BY <2>1
<1>5. QED
  BY <1>4

(* A value is the one of the last option of that name, or the default.     *)
IsLast(options, name, default, value) ==
  \/ /\ \A k \in 1..Len(options) : options[k][1] # name
     /\ value = default
  \/ \E i \in 1..Len(options) :
       /\ options[i][1] = name
       /\ \A k \in (i + 1)..Len(options) : options[k][1] # name
       /\ value = options[i][2]

(* LastOf is that value.                                                   *)
LEMMA LastOfIs ==
  ASSUME NEW options, Len(options) \in Nat, NEW name, NEW default
  PROVE  IsLast(options, name, default, LastOf(options, {name}, default))
<1>. DEFINE here == {i \in 1..Len(options) : options[i][1] \in {name}}
            top == CHOOSE i \in here : \A k \in here : k <= i
<1>1. CASE here = {}
  BY <1>1 DEF LastOf, IsLast
<1>2. CASE here # {}
  <2>1. \E i \in here : \A k \in here : k <= i
    <3>1. here \in SUBSET (1..Len(options))
      OBVIOUS
    <3>. HIDE DEF here
    <3>2. QED
      BY <1>2, <3>1, GreatestNumber
  <2>2. top \in here /\ \A k \in here : k <= top
    <3>. HIDE DEF here
    <3>1. QED
      BY <2>1
  <2>3. LastOf(options, {name}, default) = options[top][2]
    BY <1>2 DEF LastOf
  <2>. HIDE DEF top
  <2>4. \A k \in (top + 1)..Len(options) : k \in 1..Len(options) /\ ~(k <= top)
    BY <2>2
  <2>5. QED
    BY <2>2, <2>3, <2>4 DEF IsLast
<1>3. QED
  BY <1>1, <1>2

(* What the options say is what the config has.                            *)
LEMMA ConfigSays ==
  ASSUME NEW options, Len(options) \in Nat,
         \A k \in 1..Len(options) : options[k][1] \in OptionNames
  PROVE  LET c == After(options)[Len(options)] IN
         /\ c.lookup = LastOf(options, {"lookup"}, Authorization)
         /\ c.scheme = LastOf(options, {"scheme"}, "Bearer")
         /\ c.onSuccess = LastOf(options, {"success"}, "none")
<1>1. PICK c : c = After(options)[Len(options)]
  OBVIOUS
<1>2. LastHasSay(c, options, Len(options))
  BY <1>1, ConfigIsLast
<1>3. ASSUME NEW w \in Writes
      PROVE  c[w[2]] = LastOf(options, {w[1]}, DefaultJWTConfig[w[2]])
  <2>1. IsLast(options, w[1], DefaultJWTConfig[w[2]],
               LastOf(options, {w[1]}, DefaultJWTConfig[w[2]]))
    BY LastOfIs
  <2>2. PICK last : last = LastOf(options, {w[1]}, DefaultJWTConfig[w[2]])
    OBVIOUS
  <2>3. IsLast(options, w[1], DefaultJWTConfig[w[2]], last)
    BY <2>1, <2>2
  <2>4. QED
    BY <1>2, <2>2, <2>3 DEF LastHasSay, IsLast
<1>4. /\ DefaultJWTConfig.lookup = Authorization
      /\ DefaultJWTConfig.scheme = "Bearer"
      /\ DefaultJWTConfig.onSuccess = "none"
  BY DEF DefaultJWTConfig, Authorization
<1>5. QED
  BY <1>1, <1>3, <1>4 DEF Writes

----------------------------------------------------------------------------
(* What CreateToken makes. *)

TokenFields == {"kind", "scheme", "alg", "key", "exp", "nbf", "iat", "role"}

(* A token of CreateToken has its fields, and a key.                       *)
Made ==
  \A token \in issued :
    DOMAIN token = TokenFields /\ token.kind = "token" /\ token.key # None

(* Only CreateToken makes tokens.                                          *)
LEMMA MadeNext == Made /\ [Next]_vars => Made'
<1>. SUFFICES ASSUME Made, [Next]_vars PROVE Made'
  OBVIOUS
<1>1. CASE UNCHANGED issued
  BY <1>1 DEF Made
<1>2. CASE Issue
  <2>1. PICK claims \in Claims, config \in Issuers :
          /\ CreateToken(claims, config) # None
          /\ issued' = issued \cup {CreateToken(claims, config)}
    BY <1>2 DEF Issue
  <2>2. /\ DOMAIN CreateToken(claims, config) = TokenFields
        /\ CreateToken(claims, config).kind = "token"
        /\ CreateToken(claims, config).key # None
    BY <2>1 DEF CreateToken, Token, TokenFields
  <2>3. QED
    BY <2>1, <2>2 DEF Made
<1>3. QED
  BY <1>1, <1>2 DEF Next, vars, Skip, Parse, ParseFails, CheckClaims, KeyAuth, BasicAuth,
     RequireRole, Handle, Arrive, Leave, Tick, Pass, Refuse

(* A token shown where the options say is what JWT finds.                  *)
LEMMA ShownIsFound ==
  ASSUME NEW guard, guard.kind = "jwt", NEW token, token.kind = "token",
         DOMAIN token = TokenFields,
         Len(guard.options) \in Nat,
         \A k \in 1..Len(guard.options) : guard.options[k][1] \in OptionNames,
         Shown(guard.options, token)
  PROVE  /\ Presented(guard).kind = "token"
         /\ \A f \in TokenFields \ {"scheme"} : Presented(guard)[f] = token[f]
<1>. DEFINE options == guard.options
<1>1. PICK c : c = Config(guard)
  OBVIOUS
<1>2. PICK place, scheme : /\ place = LastOf(options, {"lookup"}, Authorization)
                           /\ scheme = LastOf(options, {"scheme"}, "Bearer")
  OBVIOUS
<1>3. c.lookup = place /\ c.scheme = scheme
  BY <1>1, <1>2, ConfigSays DEF Config
<1>4. PICK mark : mark = IF place[1] = "header" THEN scheme ELSE ""
  OBVIOUS
<1>5. PICK shown : shown = [token EXCEPT !["scheme"] = mark]
  OBVIOUS
<1>6. place \in Places /\ request.carried[place] = shown
  BY <1>2, <1>4, <1>5 DEF Shown
<1>7. shown["scheme"] = mark /\ \A f \in TokenFields \ {"scheme"} : shown[f] = token[f]
  <2>1. "scheme" \in DOMAIN token
    BY DEF TokenFields
  <2>2. QED
    BY <1>5, <2>1, FieldReplaced
<1>8. shown.kind = "token"
  BY <1>7 DEF TokenFields
<1>9. Absent.kind # "token"
  BY DEF Absent
<1>10. Extracted(c, request.carried) = shown
  <2>1. shown # Absent /\ shown.kind # "empty"
    BY <1>8, <1>9
  <2>2. Bare(shown) = shown \/ (mark # "" /\ shown.scheme = mark)
    BY <1>7 DEF Bare
  <2>3. QED
    BY <1>3, <1>4, <1>6, <1>7, <2>1, <2>2 DEF Extracted
<1>11. QED
  BY <1>1, <1>7, <1>8, <1>10 DEF Presented

(* A token that CreateToken has made is refused by a JWT that trusts its   *)
(* secret only when it is not in time, is not shown, or lacks a role that  *)
(* a SuccessHandler asks for (jwt.go:184, jwt.go:247).                     *)
THEOREM OwnTokensAreAdmitted == Spec => []IssuedIsAdmitted
<1>1. IInv /\ Made => IssuedIsAdmitted
  <2>1. SUFFICES ASSUME IInv, Made, NEW token \in issued,
                        pc = "answered", answer.status # 200,
                        stack[at].kind = "jwt",
                        Trusts(stack[at].options, token),
                        Shown(stack[at].options, token),
                        Timely(token, now, arrived)
                 PROVE  /\ token.role = None
                        /\ LastOf(stack[at].options, {"success"}, "none") = "role"
    BY DEF IssuedIsAdmitted
  <2>. DEFINE options == stack[at].options
  <2>2. at \in 1..Len(stack) /\ stack \in Stacks /\ ~Accepts(at, now, arrived)
    BY <2>1, AuthConstants DEF IInv, Answered, Shape, Way
  <2>3. Len(options) \in Nat /\ \A k \in 1..Len(options) : options[k][1] \in OptionNames
    BY <2>1, <2>2, OptionsAreKnown DEF OptionNames, KeyNames
  <2>4. PICK guard : guard = stack[at]
    OBVIOUS
  <2>5. PICK c : c = Config(guard)
    OBVIOUS
  <2>6. c = After(options)[Len(options)]
    BY <2>1, <2>4, <2>5 DEF Config
  <2>7. token.alg = "HS256" /\ c.secret = token.key /\ c.method = "HS256"
    <3>1. PICK i \in 1..Len(options) :
            /\ options[i] = <<"secret", token.key>>
            /\ \A k \in (i + 1)..Len(options) : options[k][1] \notin KeyNames
      BY <2>1 DEF Trusts, KeyNames
    <3>2. LastHasSay(c, options, Len(options))
      BY <2>3, <2>6, ConfigIsLast
    <3>3. options[i][1] = "secret" /\ options[i][2] = token.key
      BY <3>1
    <3>4. c.secret = token.key /\ c.method = "HS256"
      BY <3>1, <3>2, <3>3 DEF LastHasSay
    <3>5. QED
      BY <2>1, <3>4 DEF Trusts
  <2>8. c.onSuccess = LastOf(options, {"success"}, "none")
    BY <2>3, <2>6, ConfigSays
  <2>9. DOMAIN token = TokenFields /\ token.kind = "token" /\ token.key # None
    BY <2>1 DEF Made
  <2>10. PICK found : found = Presented(guard)
    OBVIOUS
  <2>11. found.kind = "token" /\ \A f \in TokenFields \ {"scheme"} : found[f] = token[f]
    BY <2>1, <2>3, <2>4, <2>9, <2>10, ShownIsFound
  <2>12. /\ found.alg = token.alg /\ found.key = token.key /\ found.role = token.role
         /\ found.exp = token.exp /\ found.nbf = token.nbf /\ found.iat = token.iat
    BY <2>11 DEF TokenFields
  <2>13. Genuine(c, found)
    BY <2>7, <2>9, <2>11, <2>12 DEF Genuine, HMAC
  <2>14. Timely(found, now, arrived)
    BY <2>1, <2>12 DEF Timely
  <2>15. ~(c.onSuccess = "role" => found.role # None)
    BY <2>1, <2>2, <2>4, <2>5, <2>10, <2>13, <2>14 DEF Accepts
  <2>16. QED
    BY <2>8, <2>12, <2>15
<1>2. Init => Made
  BY DEF Init, Made
<1>3. QED
  BY <1>1, <1>2, MadeNext, InvHolds, PTL DEF Spec
============================================================================
