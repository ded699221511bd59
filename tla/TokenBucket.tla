---------------------------- MODULE TokenBucket ----------------------------
(***************************************************************************)
(* What a token bucket promises, one bucket per key: it starts full, gains *)
(* Rate with every unit of time up to Full, and gives a caller one token   *)
(* when it holds one, and nothing when it does not.  Nobody ever forgets a *)
(* bucket here.                                                            *)
(***************************************************************************)
EXTENDS Naturals

CONSTANTS
  Keys,
  Rate,   (* what a bucket gains in a unit of time                         *)
  Full,   (* what a bucket holds at most                                   *)
  Token   (* what a call consumes                                          *)

VARIABLES
  level,  (* what each bucket holds                                        *)
  answer  (* the latest answer given for each key                          *)

bucketVars == <<level, answer>>

AtMost(n) == IF n > Full THEN Full ELSE n

Answered(k, what) == answer' = [answer EXCEPT ![k] = what]

Elapse ==
  /\ level' = [k \in Keys |-> AtMost(level[k] + Rate)]
  /\ UNCHANGED answer

Admit(k) ==
  /\ level[k] >= Token
  /\ level' = [level EXCEPT ![k] = @ - Token]
  /\ Answered(k, "passed")

Refuse(k) ==
  /\ level[k] < Token
  /\ Answered(k, "limited")
  /\ UNCHANGED level

Init ==
  /\ level = [k \in Keys |-> Full]
  /\ answer = [k \in Keys |-> "none"]

Next == Elapse \/ \E k \in Keys : Admit(k) \/ Refuse(k)

Spec == Init /\ [][Next]_bucketVars
============================================================================
