------------------------------- MODULE Planning -------------------------------
(***************************************************************************)
(* What a planner of PLFFT promises, the recursive one and the legacy one  *)
(* alike: a call for a plan is answered, once, with a plan that serves the *)
(* request if the request can be planned and with none otherwise.  How     *)
(* long it searches, what it measures and which plan it prefers is its own *)
(* business.                                                               *)
(***************************************************************************)

CONSTANTS
  None,            (* the answer nullptr                                   *)
  Plannable(_),    (* of a request: there is a plan for it                 *)
  Serves(_, _)     (* a plan does what a request asks for                  *)

VARIABLES
  phase,           (* idle, asked or answered                              *)
  request,
  answer

Init == phase \in {"idle", "asked"} /\ answer = None

Ask == phase = "idle" /\ phase' = "asked" /\ answer' = None

(* A call may be answered at once.                                         *)
Answer ==
  /\ phase \in {"idle", "asked"} /\ phase' = "answered"
  /\ phase = "asked" => request' = request
  /\ IF Plannable(request') THEN answer' # None /\ Serves(answer', request')
                           ELSE answer' = None

Forget == phase = "answered" /\ phase' = "idle" /\ answer' = None

Next == Ask \/ Answer \/ Forget

(* No call is answered otherwise.                                          *)
Safety == Init /\ [][Next]_<<phase, request, answer>>

(* Every call returns.                                                     *)
Served == (phase = "asked") ~> (phase = "answered")

Spec == Safety /\ Served

=============================================================================
