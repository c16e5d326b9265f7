---------------------------- MODULE CompilerProofs ----------------------------
(***************************************************************************)
(* Proofs about Compiler: whatever the model answers, and however calls    *)
(* of several threads overlap and fail, compile_text returns errors        *)
(* exactly if it returns no workflow that keeps the rules, what is saved   *)
(* keeps them, and what keeps them can be executed.                        *)
(*                                                                         *)
(* The lemmas about orders and levels are those of EmployeesProofs, which  *)
(* is about another state machine and cannot be extended here.             *)
(***************************************************************************)
EXTENDS Compiler, FiniteSetTheorems, SequenceTheorems, WellFoundedInduction, TLAPS

\* The loop: no answer yet means that every attempt before this one failed; an answer
\* that did not end it left errors of the rules or of the form, and a draft is kept
\* only if it broke a rule.
Looping(row) ==
    /\ row.attempt >= 1
    /\ ~row.heard => /\ row.spec = None /\ row.errors = {}
                     /\ row.failed = row.attempt - 1
    /\ row.heard => /\ row.errors # {}
                    /\ "COMPILE-0" \notin row.errors /\ "COMPILE-1" \notin row.errors
                    /\ row.failed < row.attempt - 1
    /\ row.spec # None => Errors[row.spec] # {}

Explained(row) ==
    /\ row.errors = {} <=> row.spec # None /\ Errors[row.spec] = {}
    /\ row.errors # {"COMPILE-0"} => (row.errors = {"COMPILE-1"} <=> ~row.heard)

Consistent(row) ==
    /\ row.pc = "classify" => row = [Idle EXCEPT !.pc = "classify"]
    /\ row.pc = "extract" => Looping(row)
    /\ row.pc = "save" => Explained(row)

\* Every employee keeps the rules.
EmployeesAreValid == \A d \in employees : Errors[d] = {}

IInv == TypeOK /\ EmployeesAreValid /\ \A c \in Callers : Consistent(request[c])

-----------------------------------------------------------------------------
(* The rules, and the frames of compile. *)

LEMMA CodesOfRules ==
    ASSUME NEW d \in DOMAIN Drafts
    PROVE  /\ Errors[d] \in SUBSET Codes
           /\ "COMPILE-0" \notin Errors[d] /\ "COMPILE-1" \notin Errors[d]
<1>1. Errors[d] = ValidateSpec(Drafts[d])
  BY DEF Errors
<1>2. ValidateSpec(Drafts[d]) \subseteq {"V1", "V2", "V3", "V4", "V5"}
  BY DEF ValidateSpec
<1> QED
  BY <1>1, <1>2 DEF Codes

LEMMA NotDrafts == None \notin DOMAIN Drafts /\ Malformed \notin DOMAIN Drafts
  BY CompilerAssumption

LEMMA FrameParts ==
    ASSUME NEW row \in Frame
    PROVE  /\ row.pc \in {"idle", "classify", "extract", "save"}
           /\ row.attempt \in 0 .. 3 /\ row.failed \in 0 .. 3
           /\ row.spec \in DOMAIN Drafts \cup {None}
           /\ row.errors \in SUBSET Codes /\ row.heard \in BOOLEAN
  BY DEF Frame, MAX_COMPILE_ATTEMPTS

LEMMA IdleFrame ==
    /\ Idle \in Frame /\ Consistent(Idle)
    /\ [Idle EXCEPT !.pc = "classify"] \in Frame
    /\ Consistent([Idle EXCEPT !.pc = "classify"])
<1> DEFINE new == [Idle EXCEPT !.pc = "classify"]
<1>1. 0 \in 0 .. MAX_COMPILE_ATTEMPTS
  BY DEF MAX_COMPILE_ATTEMPTS
<1>2. Idle \in Frame
  BY <1>1 DEF Idle, Frame
<1>3. new \in Frame
  BY <1>2 DEF Frame
<1>4. Idle.pc = "idle" /\ new.pc = "classify"
  BY DEF Idle
<1> QED
  BY <1>2, <1>3, <1>4 DEF Consistent

\* The end of compile, with a result that is explained.
LEMMA EndsWell ==
    ASSUME NEW row \in Frame, NEW spec \in DOMAIN Drafts \cup {None},
           NEW errors \in SUBSET Codes,
           errors = {} <=> spec # None /\ Errors[spec] = {},
           errors # {"COMPILE-0"} => (errors = {"COMPILE-1"} <=> ~row.heard)
    PROVE  Ends(row, spec, errors) \in Frame /\ Consistent(Ends(row, spec, errors))
<1> DEFINE new == Ends(row, spec, errors)
<1>1. new \in Frame
  BY DEF Ends, Frame
<1>2. /\ new.pc = "save" /\ new.spec = spec /\ new.errors = errors
      /\ new.heard = row.heard
  BY DEF Ends, Frame
<1> HIDE DEF new
<1>3. Consistent(new)
  BY <1>2 DEF Consistent, Explained
<1> QED
  BY <1>1, <1>3 DEF new

\* The end of an attempt: row is what the attempt made of the frame.
LEMMA ContinuesWell ==
    ASSUME NEW row \in Frame, row.pc = "extract", row.attempt >= 1,
           ~row.heard => row.spec = None /\ row.errors = {} /\ row.failed = row.attempt,
           row.heard => /\ row.errors # {}
                        /\ "COMPILE-0" \notin row.errors /\ "COMPILE-1" \notin row.errors
                        /\ row.failed < row.attempt,
           row.spec # None => Errors[row.spec] # {}
    PROVE  Continues(row) \in Frame /\ Consistent(Continues(row))
<1>0. /\ row.attempt \in 0 .. 3 /\ row.failed \in 0 .. 3
      /\ row.spec \in DOMAIN Drafts \cup {None}
      /\ row.errors \in SUBSET Codes /\ row.heard \in BOOLEAN
  BY FrameParts
<1>1. CASE row.attempt < MAX_COMPILE_ATTEMPTS
  <2> DEFINE new == [row EXCEPT !.attempt = row.attempt + 1]
  <2>1. Continues(row) = new
    BY <1>1 DEF Continues
  <2>2. row.attempt + 1 \in 0 .. MAX_COMPILE_ATTEMPTS
    BY <1>0, <1>1 DEF MAX_COMPILE_ATTEMPTS
  <2>3. new \in Frame
    BY <2>2 DEF Frame
  <2>4. /\ new.pc = "extract" /\ new.attempt = row.attempt + 1
        /\ new.failed = row.failed /\ new.spec = row.spec
        /\ new.errors = row.errors /\ new.heard = row.heard
    BY DEF Frame
  <2> HIDE DEF new
  <2>5. Looping(new)
    BY <1>0, <2>4 DEF Looping
  <2> QED
    BY <2>1, <2>3, <2>4, <2>5 DEF Consistent
<1>2. CASE row.attempt = MAX_COMPILE_ATTEMPTS /\ row.failed = MAX_COMPILE_ATTEMPTS
  <2>1. ~row.heard
    BY <1>0, <1>2 DEF MAX_COMPILE_ATTEMPTS
  <2>2. Continues(row) = Ends(row, None, {"COMPILE-1"})
    BY <1>2 DEF Continues, MAX_COMPILE_ATTEMPTS
  <2> QED
    BY <2>1, <2>2, EndsWell DEF Codes
<1>3. CASE row.attempt = MAX_COMPILE_ATTEMPTS /\ row.failed # MAX_COMPILE_ATTEMPTS
  <2>1. row.heard
    BY <1>0, <1>3 DEF MAX_COMPILE_ATTEMPTS
  <2>2. Continues(row) = Ends(row, row.spec, row.errors)
    BY <1>3 DEF Continues, MAX_COMPILE_ATTEMPTS
  <2> QED
    BY <1>0, <2>1, <2>2, EndsWell
<1> QED
  BY <1>0, <1>1, <1>2, <1>3 DEF MAX_COMPILE_ATTEMPTS

LEMMA FailureWell ==
    ASSUME NEW row \in Frame, Consistent(row), row.pc \in {"classify", "extract"}
    PROVE  AfterFailure(row) \in Frame /\ Consistent(AfterFailure(row))
<1>1. CASE row.pc = "classify"
  <2>1. ~row.heard
    BY <1>1 DEF Consistent, Idle
  <2> QED
    BY <1>1, <2>1, EndsWell DEF AfterFailure, Codes
<1>2. CASE row.pc = "extract"
  <2> DEFINE new == [row EXCEPT !.failed = row.failed + 1]
  <2>1. Looping(row)
    BY <1>2 DEF Consistent
  <2>2. /\ row.attempt \in 0 .. 3 /\ row.failed \in 0 .. 3 /\ row.heard \in BOOLEAN
    BY FrameParts
  <2>3. row.failed + 1 \in 0 .. MAX_COMPILE_ATTEMPTS
    BY <2>1, <2>2 DEF Looping, MAX_COMPILE_ATTEMPTS
  <2>4. new \in Frame
    BY <2>3 DEF Frame
  <2>5. /\ new.pc = row.pc /\ new.attempt = row.attempt
        /\ new.failed = row.failed + 1 /\ new.spec = row.spec
        /\ new.errors = row.errors /\ new.heard = row.heard
    BY DEF Frame
  <2>6. AfterFailure(row) = Continues(new)
    BY <1>2 DEF AfterFailure
  <2> HIDE DEF new
  <2>7. Continues(new) \in Frame /\ Consistent(Continues(new))
    <3>1. new.pc = "extract" /\ new.attempt >= 1
      BY <1>2, <2>1, <2>5 DEF Looping
    <3>2. ~new.heard => new.spec = None /\ new.errors = {} /\ new.failed = new.attempt
      BY <2>1, <2>2, <2>5 DEF Looping
    <3>3. new.heard => /\ new.errors # {}
                       /\ "COMPILE-0" \notin new.errors /\ "COMPILE-1" \notin new.errors
                       /\ new.failed < new.attempt
      BY <2>1, <2>2, <2>5 DEF Looping
    <3>4. new.spec # None => Errors[new.spec] # {}
      BY <2>1, <2>5 DEF Looping
    <3> QED
      BY <2>4, <3>1, <3>2, <3>3, <3>4, ContinuesWell
  <2> QED
    BY <2>6, <2>7
<1> QED
  BY <1>1, <1>2

LEMMA ClassifiedWell ==
    ASSUME NEW row \in Frame, Consistent(row), row.pc = "classify", NEW found \in BOOLEAN
    PROVE  AfterClassified(row, found) \in Frame /\ Consistent(AfterClassified(row, found))
<1>1. row = [Idle EXCEPT !.pc = "classify"]
  BY DEF Consistent
<1>2. CASE found
  <2> DEFINE new == [row EXCEPT !.pc = "extract", !.attempt = 1]
  <2>0. 1 \in 0 .. MAX_COMPILE_ATTEMPTS
    BY DEF MAX_COMPILE_ATTEMPTS
  <2>1. new \in Frame
    BY <2>0 DEF Frame
  <2>2. /\ new.pc = "extract" /\ new.attempt = 1 /\ new.failed = 0
        /\ new.spec = None /\ new.errors = {} /\ new.heard = FALSE
    BY <1>1 DEF Idle
  <2>3. AfterClassified(row, found) = new
    BY <1>2 DEF AfterClassified
  <2> HIDE DEF new
  <2>4. Looping(new)
    BY <2>2 DEF Looping
  <2> QED
    BY <2>1, <2>2, <2>3, <2>4 DEF Consistent
<1>3. CASE ~found
  BY <1>3, EndsWell DEF AfterClassified, Codes
<1> QED
  BY <1>2, <1>3

LEMMA DraftWell ==
    ASSUME NEW row \in Frame, Consistent(row), row.pc = "extract",
           NEW draft \in DOMAIN Drafts \cup {Malformed}
    PROVE  AfterDraft(row, draft) \in Frame /\ Consistent(AfterDraft(row, draft))
<1> DEFINE heard == [row EXCEPT !.heard = TRUE]
<1>1. Looping(row)
  BY DEF Consistent
<1>2. /\ row.attempt \in 0 .. 3 /\ row.failed \in 0 .. 3 /\ row.heard \in BOOLEAN
  BY FrameParts
<1>3. row.failed < row.attempt
  BY <1>1, <1>2 DEF Looping
<1>4. heard \in Frame
  BY DEF Frame
<1>5. /\ heard.pc = row.pc /\ heard.attempt = row.attempt
      /\ heard.failed = row.failed /\ heard.spec = row.spec /\ heard.heard = TRUE
  BY DEF Frame
<1>6. CASE draft = Malformed
  <2> DEFINE new == [heard EXCEPT !.errors = {"COMPILE-2"}]
  <2>1. AfterDraft(row, draft) = Continues(new)
    BY <1>6 DEF AfterDraft
  <2> HIDE DEF heard
  <2>2. new \in Frame
    BY <1>4 DEF Frame, Codes
  <2>3. /\ new.pc = heard.pc /\ new.attempt = heard.attempt
        /\ new.failed = heard.failed /\ new.spec = heard.spec /\ new.heard = heard.heard
        /\ new.errors = {"COMPILE-2"}
    BY <1>4 DEF Frame
  <2> HIDE DEF new
  <2>4. new.spec # None => Errors[new.spec] # {}
    BY <1>1, <1>5, <2>3 DEF Looping
  <2>5. Continues(new) \in Frame /\ Consistent(Continues(new))
    BY <1>1, <1>3, <1>5, <2>2, <2>3, <2>4, ContinuesWell DEF Looping
  <2> QED
    BY <2>1, <2>5
<1>7. CASE draft # Malformed /\ Errors[draft] = {}
  <2>1. AfterDraft(row, draft) = Ends(heard, draft, {})
    BY <1>7 DEF AfterDraft
  <2>2. draft \in DOMAIN Drafts /\ draft # None
    BY <1>7, NotDrafts
  <2> HIDE DEF heard
  <2> QED
    BY <1>4, <1>5, <1>7, <2>1, <2>2, EndsWell
<1>8. CASE draft # Malformed /\ Errors[draft] # {}
  <2> DEFINE new == [heard EXCEPT !.spec = draft, !.errors = Errors[draft]]
  <2>1. AfterDraft(row, draft) = Continues(new)
    BY <1>8 DEF AfterDraft
  <2>2. draft \in DOMAIN Drafts
    BY <1>8
  <2>3. /\ Errors[draft] \in SUBSET Codes
        /\ "COMPILE-0" \notin Errors[draft] /\ "COMPILE-1" \notin Errors[draft]
    BY <2>2, CodesOfRules
  <2> HIDE DEF heard
  <2>4. new \in Frame
    BY <1>4, <2>2, <2>3 DEF Frame
  <2>5. /\ new.pc = heard.pc /\ new.attempt = heard.attempt
        /\ new.failed = heard.failed /\ new.spec = draft /\ new.heard = heard.heard
        /\ new.errors = Errors[draft]
    BY <1>4 DEF Frame
  <2> HIDE DEF new
  <2>6. Continues(new) \in Frame /\ Consistent(Continues(new))
    BY <1>1, <1>3, <1>5, <1>8, <2>3, <2>4, <2>5, ContinuesWell DEF Looping
  <2> QED
    BY <2>1, <2>6
<1> QED
  BY <1>6, <1>7, <1>8

-----------------------------------------------------------------------------
(* The adapter. *)

LEMMA MinOfTwo ==
    ASSUME NEW a \in Nat, NEW b \in Nat
    PROVE  Min({a, b}) \in {a, b} /\ Min({a, b}) <= a /\ Min({a, b}) <= b
<1>1. \E x \in {a, b} : \A y \in {a, b} : x <= y
  OBVIOUS
<1> QED
  BY <1>1 DEF Min

LEMMA RecordKeepsCallTypes ==
    ASSUME CallsTypeOK, RecordFailure
    PROVE  failures' \in 0 .. Threshold /\ openFor' \in 0 .. ResetTicks
<1>1. Threshold \in Nat /\ ResetTicks \in Nat /\ failures \in Nat
  BY ModelCallsAssumption DEF CallsTypeOK
<1>2. Min({failures + 1, Threshold}) \in 0 .. Threshold
  BY <1>1, MinOfTwo
<1> QED
  BY <1>1, <1>2 DEF RecordFailure, CallsTypeOK

LEMMA CallsKeepTypes ==
    ASSUME CallsTypeOK, NEW c \in Callers,
           Send(c) \/ Rejected(c) \/ Failed(c) \/ Refused(c) \/ Answered(c)
    PROVE  CallsTypeOK'
<1>1. CASE Failed(c)
  BY <1>1, RecordKeepsCallTypes DEF CallsTypeOK, Failed
<1>2. CASE Send(c)
  BY <1>2 DEF CallsTypeOK, Send
<1>3. CASE Rejected(c)
  BY <1>3 DEF CallsTypeOK, Rejected, callVars
<1>4. CASE Refused(c)
  BY <1>4 DEF CallsTypeOK, Refused
<1>5. CASE Answered(c)
  BY <1>5, ModelCallsAssumption DEF CallsTypeOK, Answered
<1> QED
  BY <1>1, <1>2, <1>3, <1>4, <1>5

-----------------------------------------------------------------------------
(* The steps of a request. *)

\* One frame is replaced, and no employee is saved.
LEMMA FrameChanges ==
    ASSUME IInv, NEW c \in Callers, NEW row \in Frame, Consistent(row),
           request' = [request EXCEPT ![c] = row], employees' = employees, CallsTypeOK'
    PROVE  IInv'
  BY DEF IInv, TypeOK, EmployeesAreValid

LEMMA AdvanceKeeps ==
    ASSUME IInv, NEW c \in Callers, Advance(c)
    PROVE  IInv'
<1>1. CallsTypeOK /\ request[c] \in Frame /\ Consistent(request[c])
  BY DEF IInv, TypeOK
<1>2. CASE Calls(c)
  <2>1. CallsTypeOK'
    BY <1>1, <1>2, CallsKeepTypes DEF Calls
  <2> QED
    BY <1>2, <2>1 DEF Calls, IInv, TypeOK, EmployeesAreValid
<1>3. CASE CallFails(c)
  <2>1. CallsTypeOK'
    BY <1>1, <1>3, CallsKeepTypes DEF CallFails
  <2>2. AfterFailure(request[c]) \in Frame /\ Consistent(AfterFailure(request[c]))
    BY <1>1, <1>3, FailureWell DEF CallFails
  <2> QED
    BY <1>3, <2>1, <2>2, FrameChanges DEF CallFails
<1>4. CASE Unreadable(c)
  <2>1. CallsTypeOK'
    BY <1>1, <1>4, CallsKeepTypes DEF Unreadable
  <2> QED
    BY <1>4, <2>1, IdleFrame, FrameChanges DEF Unreadable
<1>5. ASSUME NEW found \in BOOLEAN, Classified(c, found) PROVE IInv'
  <2>1. CallsTypeOK'
    BY <1>1, <1>5, CallsKeepTypes DEF Classified
  <2>2. /\ AfterClassified(request[c], found) \in Frame
        /\ Consistent(AfterClassified(request[c], found))
    BY <1>1, <1>5, ClassifiedWell DEF Classified
  <2> QED
    BY <1>5, <2>1, <2>2, FrameChanges DEF Classified
<1>6. ASSUME NEW draft \in DOMAIN Drafts \cup {Malformed}, Extracted(c, draft) PROVE IInv'
  <2>1. CallsTypeOK'
    BY <1>1, <1>6, CallsKeepTypes DEF Extracted
  <2>2. /\ AfterDraft(request[c], draft) \in Frame
        /\ Consistent(AfterDraft(request[c], draft))
    BY <1>1, <1>6, DraftWell DEF Extracted
  <2> QED
    BY <1>6, <2>1, <2>2, FrameChanges DEF Extracted
<1>7. CASE Save(c)
  <2>1. CallsTypeOK'
    BY <1>1, <1>7 DEF Save, CallsTypeOK, callVars
  <2>2. Ok(request[c]) => /\ request[c].spec \in DOMAIN Drafts
                          /\ Errors[request[c].spec] = {}
    <3>1. Explained(request[c]) /\ request[c].spec \in DOMAIN Drafts \cup {None}
      BY <1>1, <1>7, FrameParts DEF Save, Consistent
    <3> QED
      BY <3>1 DEF Ok, Explained
  <2>3. /\ employees' \subseteq DOMAIN Drafts
        /\ \A d \in employees' : Errors[d] = {}
    BY <1>7, <2>2 DEF Save, IInv, TypeOK, EmployeesAreValid
  <2>4. request' = [request EXCEPT ![c] = Idle]
    BY <1>7 DEF Save
  <2>5. /\ request' \in [Callers -> Frame]
        /\ \A b \in Callers : Consistent(request'[b])
    BY <2>4, IdleFrame DEF IInv, TypeOK
  <2> QED
    BY <2>1, <2>3, <2>5 DEF IInv, TypeOK, EmployeesAreValid
<1>8. CASE Fail(c)
  <2>1. CallsTypeOK'
    BY <1>1, <1>8 DEF Fail, CallsTypeOK
  <2> QED
    BY <1>8, <2>1, IdleFrame, FrameChanges DEF Fail
<1> QED
  BY <1>2, <1>3, <1>4, <1>5, <1>6, <1>7, <1>8 DEF Advance

LEMMA InitKeeps == Init => IInv
<1> SUFFICES ASSUME Init PROVE IInv
  OBVIOUS
<1>1. CallsTypeOK
  BY ModelCallsAssumption DEF Init, CallsInit, CallsTypeOK
<1>2. request = [c \in Callers |-> Idle] /\ employees = {}
  BY DEF Init
<1> QED
  BY <1>1, <1>2, IdleFrame DEF IInv, TypeOK, EmployeesAreValid

LEMMA StepKeeps == IInv /\ [Next]_vars => IInv'
<1> SUFFICES ASSUME IInv, [Next]_vars PROVE IInv'
  OBVIOUS
<1>1. ASSUME NEW c \in Callers, Begin(c) PROVE IInv'
  <2>1. CallsTypeOK'
    BY <1>1 DEF Begin, IInv, TypeOK, CallsTypeOK
  <2> QED
    BY <1>1, <2>1, IdleFrame, FrameChanges DEF Begin
<1>2. ASSUME NEW c \in Callers, Advance(c) PROVE IInv'
  BY <1>2, AdvanceKeeps
<1>3. CASE Clock
  <2>1. ResetTicks \in Nat
    BY ModelCallsAssumption
  <2>2. CallsTypeOK'
    BY <1>3, <2>1 DEF Clock, Tick, IInv, TypeOK, CallsTypeOK
  <2> QED
    BY <1>3, <2>2 DEF Clock, IInv, TypeOK, EmployeesAreValid
<1>4. CASE ServerChanges /\ UNCHANGED << request, employees >>
  <2>1. CallsTypeOK'
    BY <1>4 DEF ServerChanges, IInv, TypeOK, CallsTypeOK
  <2> QED
    BY <1>4, <2>1 DEF IInv, TypeOK, EmployeesAreValid
<1>5. CASE UNCHANGED vars
  BY <1>5 DEF vars, IInv, TypeOK, CallsTypeOK, EmployeesAreValid
<1> QED
  BY <1>1, <1>2, <1>3, <1>4, <1>5 DEF Next

LEMMA Inductive == Spec => []IInv
<1>1. Init => IInv
  BY InitKeeps
<1>2. IInv /\ [Next]_vars => IInv'
  BY StepKeeps
<1> QED
  BY <1>1, <1>2, PTL DEF Spec

\* The frames of compile, the breaker and the table hold what they may hold.
THEOREM TypeCorrect == Spec => []TypeOK
  BY Inductive, PTL DEF IInv

LEMMA IInvExplains == IInv => OutcomeIsExplained
  BY DEF IInv, Consistent, Explained, OutcomeIsExplained

\* For any drafts and any number of threads: errors exactly if there is no workflow that
\* keeps the rules, and "the model is out of reach" exactly if nothing was answered.
THEOREM OutcomesExplained == Spec => []OutcomeIsExplained
  BY Inductive, IInvExplains, PTL

\* Whatever the model answers, what is saved has passed every validator.
THEOREM SavedAreValid == Spec => []EmployeesAreValid
  BY Inductive, PTL DEF IInv

-----------------------------------------------------------------------------
(* Numbers. *)

LEMMA Smallest ==
    ASSUME NEW S, S \subseteq Nat, S # {}
    PROVE  \E n \in S : \A m \in S : n <= m
<1>1. PICK n \in S : \A m \in S : << m, n >> \notin OpToRel(<, Nat)
  BY NatLessThanWellFounded, WFMin
<1>2. n \in S /\ \A m \in S : ~(m < n)
  BY <1>1 DEF OpToRel
<1>3. \A m \in S : m \in Nat /\ n \in Nat
  OBVIOUS
<1>4. \A m \in S : n <= m
  BY <1>2, <1>3
<1> QED  BY <1>2, <1>4

LEMMA Greatest ==
    ASSUME NEW L \in Nat, NEW S, S \subseteq 1 .. L, S # {}
    PROVE  Max(S) \in S /\ \A s \in S : s <= Max(S)
<1> DEFINE T == {L - s : s \in S}
<1>1. T \subseteq Nat
  <2>1. \A s \in S : s \in Int /\ L - s >= 0
    OBVIOUS
  <2> QED  BY <2>1
<1>2. T # {}
  OBVIOUS
<1>3. \E n \in T : \A m \in T : n <= m
  <2> HIDE DEF T
  <2> QED  BY <1>1, <1>2, Smallest
<1>4. PICK n \in T : \A m \in T : n <= m
  BY <1>3
<1>5. L - n \in S /\ \A y \in S : L - n >= y
  BY <1>4
<1> QED  BY <1>5 DEF Max

-----------------------------------------------------------------------------
(* A workflow that was validated has an order. *)

\* Induction, for a set of natural numbers.
LEMMA EveryNatural ==
    ASSUME NEW P, 0 \in P, \A n \in Nat : n \in P => n + 1 \in P
    PROVE  \A n \in Nat : n \in P
<1> SUFFICES ASSUME Nat \ P # {} PROVE FALSE
  OBVIOUS
<1>1. PICK n \in Nat \ P : \A m \in Nat \ P : n <= m
  BY Smallest
<1> QED  BY <1>1

\* One turn of the loop of topo_order.
Ready(steps, edges, done) ==
    {i \in DOMAIN steps : /\ steps[i] \notin ToSet(done)
                          /\ Parents(steps, edges, steps[i]) \subseteq ToSet(done)}
Longer(steps, edges, done) ==
    IF Ready(steps, edges, done) = {} THEN done
    ELSE Append(done, steps[Min(Ready(steps, edges, done))])

\* The recursive function topo_order stands for exists, and does what it says.
LEMMA OrderUnfolds ==
    ASSUME NEW steps, NEW edges, Len(steps) \in Nat
    PROVE  \E order :
            /\ TopoOrder(steps, edges) = order[Len(steps)]
            /\ order[0] = << >>
            /\ \A n \in Nat : n < Len(steps) => order[n + 1] = Longer(steps, edges, order[n])
<1> DEFINE F(f, n) == IF n = 0 THEN << >> ELSE Longer(steps, edges, f[n - 1])
           L == Len(steps)
           Upto(n) == \E f : f = [m \in 0 .. n |-> F(f, m)]
           order == CHOOSE f : f = [m \in 0 .. L |-> F(f, m)]
<1>1. TopoOrder(steps, edges) = order[L]
  BY DEF TopoOrder, Longer, Ready
<1>2. Upto(0)
  <2> DEFINE f == [m \in 0 .. 0 |-> << >>]
  <2>1. f = [m \in 0 .. 0 |-> F(f, m)]
    OBVIOUS
  <2> QED  BY <2>1
<1>3. ASSUME NEW n \in Nat, Upto(n)
      PROVE  Upto(n + 1)
  <2>1. PICK f : f = [m \in 0 .. n |-> F(f, m)]
    BY <1>3
  <2> DEFINE g == [m \in 0 .. (n + 1) |-> IF m = n + 1 THEN Longer(steps, edges, f[n]) ELSE f[m]]
  <2>2. \A m \in 0 .. (n + 1) : g[m] = F(g, m)
    <3> TAKE m \in 0 .. (n + 1)
    <3>1. CASE m = n + 1
      <4>1. g[m] = Longer(steps, edges, f[n]) /\ g[m - 1] = f[n] /\ m # 0
        BY <3>1
      <4> QED  BY <4>1
    <3>2. CASE m # n + 1
      <4>0. m \in 0 .. n
        BY <3>2
      <4>1. g[m] = f[m] /\ f[m] = F(f, m)
        <5> HIDE DEF F
        <5> QED  BY <2>1, <3>2, <4>0
      <4>2. m # 0 => g[m - 1] = f[m - 1]
        BY <3>2
      <4> QED  BY <4>0, <4>1, <4>2
    <3> QED  BY <3>1, <3>2
  <2>3. g = [m \in 0 .. (n + 1) |-> F(g, m)]
    <3>1. g = [m \in 0 .. (n + 1) |-> g[m]]
      OBVIOUS
    <3> QED  BY <3>1, <2>2
  <2> QED  BY <2>3
<1>4. Upto(L)
  <2> DEFINE P == {n \in Nat : Upto(n)}
  <2>1. 0 \in P /\ \A n \in Nat : n \in P => n + 1 \in P
    <3> HIDE DEF Upto
    <3> QED  BY <1>2, <1>3
  <2>2. \A n \in Nat : n \in P
    <3> HIDE DEF P
    <3> QED  BY <2>1, EveryNatural
  <2> QED  BY <2>2
<1>5. order = [m \in 0 .. L |-> F(order, m)]
  BY <1>4
<1> HIDE DEF order
<1>6. \A m \in 0 .. L : order[m] = F(order, m)
  BY <1>5
<1>7. order[0] = << >> /\ \A n \in Nat : n < L => order[n + 1] = Longer(steps, edges, order[n])
  BY <1>6
<1> QED  BY <1>1, <1>7

\* One turn of the validator's loop.
Visit(steps, edges, seen) == {k \in ToSet(steps) : Parents(steps, edges, k) \subseteq seen}

LEMMA VisitedUnfolds ==
    ASSUME NEW steps, NEW edges, Len(steps) \in Nat, NoCycles(steps, edges)
    PROVE  \E visited :
            /\ visited[Len(steps)] = ToSet(steps)
            /\ visited[0] = {}
            /\ \A n \in Nat : n < Len(steps) => visited[n + 1] = Visit(steps, edges, visited[n])
<1> DEFINE F(f, n) == IF n = 0 THEN {} ELSE Visit(steps, edges, f[n - 1])
           L == Len(steps)
           Upto(n) == \E f : f = [m \in 0 .. n |-> F(f, m)]
           visited == CHOOSE f : f = [m \in 0 .. L |-> F(f, m)]
<1>1. visited[L] = ToSet(steps)
  BY DEF NoCycles, Visit
<1>2. Upto(0)
  <2> DEFINE f == [m \in 0 .. 0 |-> {}]
  <2>1. f = [m \in 0 .. 0 |-> F(f, m)]
    OBVIOUS
  <2> QED  BY <2>1
<1>3. ASSUME NEW n \in Nat, Upto(n)
      PROVE  Upto(n + 1)
  <2>1. PICK f : f = [m \in 0 .. n |-> F(f, m)]
    BY <1>3
  <2> DEFINE g == [m \in 0 .. (n + 1) |-> IF m = n + 1 THEN Visit(steps, edges, f[n]) ELSE f[m]]
  <2>2. \A m \in 0 .. (n + 1) : g[m] = F(g, m)
    <3> TAKE m \in 0 .. (n + 1)
    <3>1. CASE m = n + 1
      <4>1. g[m] = Visit(steps, edges, f[n]) /\ g[m - 1] = f[n] /\ m # 0
        BY <3>1
      <4> QED  BY <4>1
    <3>2. CASE m # n + 1
      <4>0. m \in 0 .. n
        BY <3>2
      <4>1. g[m] = f[m] /\ f[m] = F(f, m)
        <5> HIDE DEF F
        <5> QED  BY <2>1, <3>2, <4>0
      <4>2. m # 0 => g[m - 1] = f[m - 1]
        BY <3>2
      <4> QED  BY <4>0, <4>1, <4>2
    <3> QED  BY <3>1, <3>2
  <2>3. g = [m \in 0 .. (n + 1) |-> F(g, m)]
    <3>1. g = [m \in 0 .. (n + 1) |-> g[m]]
      OBVIOUS
    <3> QED  BY <3>1, <2>2
  <2> QED  BY <2>3
<1>4. Upto(L)
  <2> DEFINE P == {n \in Nat : Upto(n)}
  <2>1. 0 \in P /\ \A n \in Nat : n \in P => n + 1 \in P
    <3> HIDE DEF Upto
    <3> QED  BY <1>2, <1>3
  <2>2. \A n \in Nat : n \in P
    <3> HIDE DEF P
    <3> QED  BY <2>1, EveryNatural
  <2> QED  BY <2>2
<1>5. visited = [m \in 0 .. L |-> F(visited, m)]
  BY <1>4
<1> HIDE DEF visited
<1>6. \A m \in 0 .. L : visited[m] = F(visited, m)
  BY <1>5
<1>7. visited[0] = {} /\ \A n \in Nat : n < L => visited[n + 1] = Visit(steps, edges, visited[n])
  BY <1>6
<1> QED  BY <1>1, <1>7

\* No step twice, and none in front of a step it depends on.
InOrder(steps, edges, done) ==
    /\ done \in Seq(ToSet(steps))
    /\ \A i, j \in 1 .. Len(done) : i < j => done[i] # done[j]
    /\ \A j \in 1 .. Len(done) :
        Parents(steps, edges, done[j]) \subseteq {done[i] : i \in 1 .. (j - 1)}

\* The loop keeps it so, and goes on as long as a step is ready.
LEMMA LongerIsInOrder ==
    ASSUME NEW steps, NEW edges, steps \in Seq(ToSet(steps)), NEW done,
           InOrder(steps, edges, done)
    PROVE  /\ InOrder(steps, edges, Longer(steps, edges, done))
           /\ Ready(steps, edges, done) # {} =>
                Len(Longer(steps, edges, done)) = Len(done) + 1
<1> DEFINE ready == Ready(steps, edges, done)
<1>1. CASE ready = {}
  BY <1>1 DEF Longer
<1>2. CASE ready # {}
  <2> DEFINE m == Min(ready)
             next == Append(done, steps[m])
             n == Len(done)
  <2>1. DOMAIN steps \subseteq Nat
    OBVIOUS
  <2>2. ready \subseteq Nat
    BY <2>1 DEF Ready
  <2>3. m \in ready
    <3>1. PICK i \in ready : \A j \in ready : i <= j
      BY <1>2, <2>2, Smallest
    <3> QED  BY <3>1 DEF Min
  <2> HIDE DEF m
  <2>4. /\ m \in DOMAIN steps /\ steps[m] \in ToSet(steps) /\ steps[m] \notin ToSet(done)
        /\ Parents(steps, edges, steps[m]) \subseteq ToSet(done)
    BY <2>3 DEF Ready, ToSet
  <2>5. /\ done \in Seq(ToSet(steps)) /\ n \in Nat /\ DOMAIN done = 1 .. n
    BY DEF InOrder
  <2>6. ToSet(done) = {done[i] : i \in 1 .. n}
    BY <2>5 DEF ToSet
  <2>7. /\ next \in Seq(ToSet(steps)) /\ Len(next) = n + 1
        /\ next[n + 1] = steps[m] /\ \A i \in 1 .. n : next[i] = done[i]
    BY <2>4, <2>5
  <2>8. Longer(steps, edges, done) = next
    BY <1>2 DEF Longer, m
  <2> HIDE DEF next
  <2>9. ASSUME NEW i \in 1 .. (n + 1), NEW j \in 1 .. (n + 1), i < j
        PROVE  next[i] # next[j]
    <3>1. i \in 1 .. n /\ next[i] = done[i] /\ done[i] \in ToSet(done)
      BY <2>5, <2>6, <2>7, <2>9
    <3>2. CASE j = n + 1
      BY <2>4, <2>7, <3>1, <3>2
    <3>3. CASE j # n + 1
      <4>1. j \in 1 .. n /\ next[j] = done[j]
        BY <2>5, <2>7, <3>3
      <4> QED  BY <2>9, <3>1, <4>1 DEF InOrder
    <3> QED  BY <3>2, <3>3
  <2>10. ASSUME NEW j \in 1 .. (n + 1)
         PROVE  Parents(steps, edges, next[j]) \subseteq {next[i] : i \in 1 .. (j - 1)}
    <3>1. CASE j = n + 1
      <4>1. j - 1 = n
        BY <2>5, <3>1
      <4>2. {next[i] : i \in 1 .. n} = {done[i] : i \in 1 .. n}
        BY <2>7
      <4> QED  BY <2>4, <2>6, <2>7, <3>1, <4>1, <4>2
    <3>2. CASE j # n + 1
      <4>1. j \in 1 .. n /\ next[j] = done[j]
        BY <2>5, <2>7, <3>2
      <4>2. {next[i] : i \in 1 .. (j - 1)} = {done[i] : i \in 1 .. (j - 1)}
        BY <2>5, <2>7, <4>1
      <4> QED  BY <4>1, <4>2 DEF InOrder
    <3> QED  BY <3>1, <3>2
  <2> QED  BY <2>7, <2>8, <2>9, <2>10 DEF InOrder
<1> QED  BY <1>1, <1>2

\* As long as a step is missing, some step is ready.
LEMMA SomeStepIsReady ==
    ASSUME NEW steps, NEW edges, Len(steps) \in Nat, NoCycles(steps, edges), NEW done,
           ~(ToSet(steps) \subseteq ToSet(done))
    PROVE  Ready(steps, edges, done) # {}
<1> DEFINE L == Len(steps)
<1>1. PICK visited :
            /\ visited[L] = ToSet(steps)
            /\ visited[0] = {}
            /\ \A n \in Nat : n < L => visited[n + 1] = Visit(steps, edges, visited[n])
  BY VisitedUnfolds
<1> DEFINE P == {n \in 0 .. L : ~(visited[n] \subseteq ToSet(done))}
<1>2. P \subseteq Nat /\ P # {}
  BY <1>1
<1>3. PICK n \in P : \A m \in P : n <= m
  BY <1>2, Smallest
<1>4. n # 0 /\ n \in 1 .. L
  BY <1>1, <1>3
<1>5. visited[n - 1] \subseteq ToSet(done)
  BY <1>3, <1>4
<1>6. visited[n] = Visit(steps, edges, visited[n - 1])
  <2>1. n - 1 \in Nat /\ n - 1 < L /\ n = (n - 1) + 1
    BY <1>4
  <2> QED  BY <1>1, <2>1
<1>7. PICK k \in visited[n] : k \notin ToSet(done)
  BY <1>3
<1>8. k \in ToSet(steps) /\ Parents(steps, edges, k) \subseteq ToSet(done)
  BY <1>5, <1>6, <1>7 DEF Visit
<1> QED  BY <1>7, <1>8 DEF Ready, ToSet

\* A sequence without repetitions has as many elements as places.
LEMMA Counted ==
    ASSUME NEW S, NEW s \in Seq(S), \A i, j \in 1 .. Len(s) : i < j => s[i] # s[j]
    PROVE  IsFiniteSet(ToSet(s)) /\ Cardinality(ToSet(s)) = Len(s)
<1>1. Len(s) \in Nat /\ DOMAIN s = 1 .. Len(s)
  OBVIOUS
<1>2. ToSet(s) = {s[i] : i \in 1 .. Len(s)}
  BY <1>1 DEF ToSet
<1>3. s \in Bijection(1 .. Len(s), ToSet(s))
  <2>1. s \in [1 .. Len(s) -> ToSet(s)]
    BY <1>1, <1>2, LenProperties
  <2>2. \A i, j \in 1 .. Len(s) : s[i] = s[j] => i = j
    BY <1>1
  <2>3. \A x \in ToSet(s) : \E i \in 1 .. Len(s) : s[i] = x
    BY <1>2
  <2>4. DOMAIN s = 1 .. Len(s)
    BY <1>1
  <2> QED  BY <2>1, <2>2, <2>3, <2>4 DEF Bijection, Injection, Surjection, IsInjective
<1>4. IsFiniteSet(1 .. Len(s)) /\ Cardinality(1 .. Len(s)) = Len(s)
  BY <1>1, FS_Interval
<1> QED  BY <1>3, <1>4, FS_Bijection DEF ExistsBijection

\* topo_order raises for no workflow that V-2 and V-3 let pass: whatever the graph,
\* its order has every step, none of them twice, and each behind all the steps it
\* depends on, which is what ExecutionAssumption asks of Workflow.
THEOREM ValidatedIsOrdered ==
    ASSUME NEW steps, NEW edges, steps \in Seq(ToSet(steps)), IsValid(steps, edges)
    PROVE  LET order == TopoOrder(steps, edges) IN
           /\ IsOrdered(steps, edges)
           /\ ToSet(order) = ToSet(steps)
           /\ InOrder(steps, edges, order)
<1> DEFINE L == Len(steps)
<1>1. L \in Nat /\ DOMAIN steps = 1 .. L
  OBVIOUS
<1>2. IsFiniteSet(ToSet(steps)) /\ Cardinality(ToSet(steps)) = L
  <2>1. \A i, j \in 1 .. L : i < j => steps[i] # steps[j]
    BY <1>1 DEF IsValid, UniqueKeysAndRealEdges, IsInjective
  <2> QED  BY <2>1, Counted
<1>3. PICK order :
            /\ TopoOrder(steps, edges) = order[L]
            /\ order[0] = << >>
            /\ \A n \in Nat : n < L => order[n + 1] = Longer(steps, edges, order[n])
  BY <1>1, OrderUnfolds
<1> DEFINE P == {n \in Nat : n <= L =>
                    InOrder(steps, edges, order[n]) /\ Len(order[n]) = n}
<1>4. 0 \in P
  <2>1. << >> \in Seq(ToSet(steps)) /\ Len(<< >>) = 0 /\ 1 .. 0 = {}
    OBVIOUS
  <2>2. InOrder(steps, edges, << >>)
    BY <2>1 DEF InOrder
  <2> QED  BY <1>3, <2>1, <2>2
<1>5. ASSUME NEW n \in Nat, n \in P
      PROVE  n + 1 \in P
  <2> SUFFICES ASSUME n + 1 <= L
               PROVE  InOrder(steps, edges, order[n + 1]) /\ Len(order[n + 1]) = n + 1
    OBVIOUS
  <2>1. /\ n < L /\ InOrder(steps, edges, order[n]) /\ Len(order[n]) = n
        /\ order[n + 1] = Longer(steps, edges, order[n])
    BY <1>1, <1>3, <1>5
  <2>2. ToSet(order[n]) # ToSet(steps)
    <3>1. Cardinality(ToSet(order[n])) = n
      BY <2>1, Counted DEF InOrder
    <3> QED  BY <1>1, <1>2, <2>1, <3>1
  <2>3. ToSet(order[n]) \subseteq ToSet(steps)
    BY <2>1 DEF InOrder, ToSet
  <2>4. Ready(steps, edges, order[n]) # {}
    BY <1>1, <2>2, <2>3, SomeStepIsReady DEF IsValid
  <2> QED  BY <2>1, <2>4, LongerIsInOrder
<1>6. L \in P
  <2> HIDE DEF P
  <2> QED  BY <1>1, <1>4, <1>5, EveryNatural
<1>7. InOrder(steps, edges, order[L]) /\ Len(order[L]) = L
  BY <1>1, <1>6
<1>8. ToSet(order[L]) \subseteq ToSet(steps)
  BY <1>7 DEF InOrder, ToSet
<1>9. ToSet(order[L]) = ToSet(steps)
  <2>1. Cardinality(ToSet(order[L])) = L
    BY <1>7, Counted DEF InOrder
  <2> QED  BY <1>2, <1>8, <2>1, FS_Subset
<1> QED  BY <1>3, <1>7, <1>9 DEF IsOrdered


-----------------------------------------------------------------------------
(* Levels. *)

\* The places in the order of the parents of the step on place i.
Behind(steps, edges, order, i) ==
    {j \in 1 .. (i - 1) : order[j] \in Parents(steps, edges, order[i])}

\* One turn of the loop of topo_levels.
LevelOf(steps, edges, order, level, i) ==
    IF Behind(steps, edges, order, i) = {} THEN 1
    ELSE 1 + Max({level[j] : j \in Behind(steps, edges, order, i)})

\* The recursive function topo_levels stands for exists, and does what it says.
LEMMA LevelsUnfold ==
    ASSUME NEW steps, NEW edges, NEW L \in Nat, NEW order, Len(order) = L
    PROVE  LET level == CHOOSE f : f = [i \in 1 .. L |-> LevelOf(steps, edges, order, f, i)]
           IN  level = [i \in 1 .. L |-> LevelOf(steps, edges, order, level, i)]
<1> DEFINE F(f, i) == LevelOf(steps, edges, order, f, i)
           Upto(n) == \E f : f = [i \in 1 .. n |-> F(f, i)]
<1>1. Upto(0)
  <2> DEFINE f == [i \in 1 .. 0 |-> 1]
  <2>1. f = [i \in 1 .. 0 |-> F(f, i)]
    OBVIOUS
  <2> QED  BY <2>1
<1>2. ASSUME NEW n \in Nat, Upto(n)
      PROVE  Upto(n + 1)
  <2>1. PICK f : f = [i \in 1 .. n |-> F(f, i)]
    BY <1>2
  <2> DEFINE g == [i \in 1 .. (n + 1) |-> IF i = n + 1 THEN F(f, n + 1) ELSE f[i]]
  <2>2. ASSUME NEW i \in 1 .. (n + 1)
        PROVE  F(g, i) = F(f, i)
    <3>1. \A j \in Behind(steps, edges, order, i) : g[j] = f[j]
      BY DEF Behind
    <3>2. {g[j] : j \in Behind(steps, edges, order, i)} = {f[j] : j \in Behind(steps, edges, order, i)}
      <4> HIDE DEF g
      <4> QED  BY <3>1
    <3> HIDE DEF g
    <3> QED  BY <3>2 DEF LevelOf
  <2>3. ASSUME NEW i \in 1 .. (n + 1)
        PROVE  g[i] = F(f, i)
    <3>1. CASE i = n + 1
      BY <3>1
    <3>2. CASE i # n + 1
      <4>1. i \in 1 .. n
        BY <3>2
      <4>2. f[i] = F(f, i)
        <5> HIDE DEF F
        <5> QED  BY <2>1, <4>1
      <4>3. g[i] = f[i]
        BY <3>2
      <4> QED  BY <4>2, <4>3
    <3> QED  BY <3>1, <3>2
  <2>4. g = [i \in 1 .. (n + 1) |-> g[i]]
    OBVIOUS
  <2>5. g = [i \in 1 .. (n + 1) |-> F(g, i)]
    <3> HIDE DEF g, F
    <3> QED  BY <2>2, <2>3, <2>4
  <2> QED  BY <2>5
<1>3. Upto(L)
  <2> DEFINE P == {n \in Nat : Upto(n)}
  <2>1. 0 \in P /\ \A n \in Nat : n \in P => n + 1 \in P
    <3> HIDE DEF Upto
    <3> QED  BY <1>1, <1>2
  <2>2. \A n \in Nat : n \in P
    <3> HIDE DEF P
    <3> QED  BY <2>1, EveryNatural
  <2> QED  BY <2>2
<1> QED  BY <1>3

\* Every step of the order has a level, above those of the steps it depends on.
LEMMA LevelsRise ==
    ASSUME NEW steps, NEW edges, steps \in Seq(ToSet(steps)), IsValid(steps, edges)
    PROVE  LET level == TopoLevels(steps, edges) IN
           /\ \A k \in ToSet(steps) : level[k] \in Nat
           /\ \A k \in ToSet(steps) : \A p \in Parents(steps, edges, k) :
                p \in ToSet(steps) /\ level[p] < level[k]
<1> DEFINE order == TopoOrder(steps, edges)
           L == Len(order)
           level == CHOOSE f : f = [i \in 1 .. L |-> LevelOf(steps, edges, order, f, i)]
           place(k) == CHOOSE i \in DOMAIN order : order[i] = k
<1>1. ToSet(order) = ToSet(steps) /\ InOrder(steps, edges, order)
  BY ValidatedIsOrdered
<1>2. TopoLevels(steps, edges) = [k \in ToSet(order) |-> level[place(k)]]
  BY DEF TopoLevels, LevelOf, Behind
<1> HIDE DEF order
<1>3. L \in Nat /\ DOMAIN order = 1 .. L /\ order \in Seq(ToSet(steps))
  BY <1>1 DEF InOrder
<1>4. level = [i \in 1 .. L |-> LevelOf(steps, edges, order, level, i)]
  BY <1>3, LevelsUnfold
<1> HIDE DEF level
<1>5. \A i \in 1 .. L : level[i] = LevelOf(steps, edges, order, level, i)
  BY <1>4
<1> HIDE DEF L
\* If no earlier step is on a level beyond its place, this one is not either, and it
\* is above the steps behind it.
<1>6. ASSUME NEW i \in 1 .. L, \A j \in 1 .. (i - 1) : level[j] \in 1 .. j
      PROVE  /\ level[i] \in 1 .. i
             /\ \A j \in Behind(steps, edges, order, i) : level[j] < level[i]
  <2> DEFINE B == Behind(steps, edges, order, i)
             S == {level[j] : j \in B}
  <2>1. B \subseteq 1 .. (i - 1) /\ i \in Nat /\ i - 1 \in Nat /\ 1 <= i
    BY <1>3 DEF Behind
  <2>2. level[i] = IF B = {} THEN 1 ELSE 1 + Max(S)
    BY <1>5 DEF LevelOf
  <2>3. S \subseteq 1 .. (i - 1)
    <3> HIDE DEF B
    <3>1. \A j \in B : level[j] \in 1 .. j /\ j <= i - 1 /\ j \in Int
      BY <1>6, <2>1
    <3> QED  BY <2>1, <3>1
  <2>4. CASE B = {}
    BY <2>1, <2>2, <2>4
  <2>5. CASE B # {}
    <3>1. Max(S) \in S /\ \A s \in S : s <= Max(S)
      <4> HIDE DEF B
      <4>1. S # {}
        BY <2>5
      <4> HIDE DEF S
      <4> QED  BY <2>1, <2>3, <4>1, Greatest
    <3> HIDE DEF B
    <3>2. \A j \in B : level[j] \in S
      OBVIOUS
    <3> HIDE DEF S
    <3> DEFINE m == Max(S)
    <3>3. m \in 1 .. (i - 1) /\ level[i] = 1 + m
      BY <2>2, <2>3, <2>5, <3>1
    <3>4. \A j \in B : level[j] \in 1 .. (i - 1) /\ level[j] <= m
      BY <2>3, <3>1, <3>2
    <3> HIDE DEF m
    <3>5. level[i] \in 1 .. i /\ \A j \in B : level[j] < level[i]
      BY <2>1, <3>3, <3>4
    <3> QED  BY <3>5 DEF B
  <2> QED  BY <2>4, <2>5
<1>7. \A i \in 1 .. L : level[i] \in 1 .. i
  <2> DEFINE P == {n \in Nat : \A j \in 1 .. n : j <= L => level[j] \in 1 .. j}
  <2>1. 0 \in P
    OBVIOUS
  <2>2. ASSUME NEW n \in Nat, n \in P
        PROVE  n + 1 \in P
    <3> SUFFICES ASSUME n + 1 <= L PROVE level[n + 1] \in 1 .. (n + 1)
      BY <1>3, <2>2
    <3>1. n + 1 \in 1 .. L /\ \A j \in 1 .. ((n + 1) - 1) : level[j] \in 1 .. j
      BY <1>3, <2>2
    <3> QED  BY <1>6, <3>1
  <2>3. L \in P
    <3> HIDE DEF P
    <3> QED  BY <1>3, <2>1, <2>2, EveryNatural
  <2> QED  BY <1>3, <2>3
<1>8. ASSUME NEW k \in ToSet(steps)
      PROVE  place(k) \in 1 .. L /\ order[place(k)] = k
  BY <1>1, <1>3, <1>8 DEF ToSet
<1>9. ASSUME NEW k \in ToSet(steps), NEW p \in Parents(steps, edges, k)
      PROVE  p \in ToSet(steps) /\ level[place(p)] < level[place(k)]
  <2>1. p \in ToSet(steps)
    BY DEF Parents
  <2>2. /\ place(p) \in 1 .. L /\ order[place(p)] = p
        /\ place(k) \in 1 .. L /\ order[place(k)] = k
    BY <1>8, <2>1
  <2> HIDE DEF place
  <2>3. PICK j \in 1 .. (place(k) - 1) : order[j] = p
    BY <1>1, <2>2 DEF InOrder, L
  <2>4. j \in 1 .. L /\ j = place(p)
    <3>1. j \in 1 .. L
      BY <1>3, <2>2
    <3> QED  BY <1>1, <1>3, <2>2, <2>3, <3>1 DEF InOrder, L
  <2>5. place(p) \in Behind(steps, edges, order, place(k))
    BY <2>2, <2>3, <2>4 DEF Behind
  <2> QED  BY <1>6, <1>7, <2>1, <2>2, <2>5, <1>3
<1>10. \A k \in ToSet(steps) : TopoLevels(steps, edges)[k] = level[place(k)]
  BY <1>1, <1>2
<1>11. \A k \in ToSet(steps) : level[place(k)] \in Nat
  BY <1>3, <1>7, <1>8
<1> HIDE DEF place
<1> QED  BY <1>9, <1>10, <1>11

-----------------------------------------------------------------------------
(* The order in which a workflow is kept. *)

\* The step on place j comes before the one on place i.
InFront(steps, level, j, i) ==
    \/ level[steps[j]] < level[steps[i]]
    \/ level[steps[j]] = level[steps[i]] /\ j < i

Ahead(steps, level, i) == {j \in DOMAIN steps : InFront(steps, level, j, i)}

\* Sorting is a permutation of the places.
LEMMA SortedPlaces ==
    ASSUME NEW steps, steps \in Seq(ToSet(steps)), NEW level,
           \A k \in ToSet(steps) : level[k] \in Nat
    PROVE  \E place \in [1 .. Len(steps) -> 1 .. Len(steps)] :
            /\ \A n \in 1 .. Len(steps) : place[n] =
                CHOOSE i \in DOMAIN steps : Cardinality(Ahead(steps, level, i)) = n - 1
            /\ \A i \in 1 .. Len(steps) : \E n \in 1 .. Len(steps) : place[n] = i
            /\ \A m, n \in 1 .. Len(steps) :
                m < n => InFront(steps, level, place[m], place[n])
<1> DEFINE L == Len(steps)
           D == 1 .. L
           ahead(i) == Ahead(steps, level, i)
           count(i) == Cardinality(ahead(i))
<1>1. L \in Nat /\ DOMAIN steps = D /\ IsFiniteSet(D) /\ Cardinality(D) = L
  <2>1. L \in Nat /\ DOMAIN steps = D
    OBVIOUS
  <2> QED  BY <2>1, FS_Interval
<1> HIDE DEF L
<1>2. \A i \in D : level[steps[i]] \in Nat
  BY <1>1 DEF ToSet
<1>3. \A i, j \in D : i # j => InFront(steps, level, i, j) \/ InFront(steps, level, j, i)
  BY <1>1, <1>2 DEF InFront
<1>4. \A i, j \in D : ~(InFront(steps, level, i, j) /\ InFront(steps, level, j, i))
  BY <1>1, <1>2 DEF InFront
<1>5. \A i, j, k \in D :
        InFront(steps, level, i, j) /\ InFront(steps, level, j, k) => InFront(steps, level, i, k)
  BY <1>1, <1>2 DEF InFront
<1>6. ASSUME NEW i \in D
      PROVE  IsFiniteSet(ahead(i)) /\ count(i) \in 0 .. (L - 1)
  <2>1. ahead(i) \subseteq D /\ i \notin ahead(i)
    BY <1>1, <1>4 DEF Ahead
  <2>2. /\ IsFiniteSet(ahead(i)) /\ count(i) <= L
        /\ count(i) = L => D = ahead(i)
    BY <1>1, <2>1, FS_Subset
  <2>3. count(i) \in Nat
    BY <2>2, FS_CardinalityType
  <2> QED  BY <1>1, <2>1, <2>2, <2>3
<1>7. ASSUME NEW i \in D, NEW j \in D, InFront(steps, level, i, j)
      PROVE  count(i) < count(j)
  <2>1. ahead(i) \subseteq ahead(j)
    BY <1>1, <1>5, <1>7 DEF Ahead
  <2>2. i \in ahead(j) /\ i \notin ahead(i)
    BY <1>1, <1>4, <1>7 DEF Ahead
  <2>3. IsFiniteSet(ahead(j)) /\ count(i) \in Nat /\ count(j) \in Nat
    BY <1>6
  <2>4. count(i) <= count(j) /\ count(i) # count(j)
    <3> HIDE DEF ahead
    <3> QED  BY <2>1, <2>2, <2>3, FS_Subset
  <2> QED  BY <2>3, <2>4
<1> DEFINE rank == [i \in D |-> count(i) + 1]
<1>8. rank \in Injection(D, D)
  <2> HIDE DEF count
  <2>1. \A i \in D : count(i) + 1 \in D
    BY <1>1, <1>6
  <2>2. \A i, j \in D : count(i) + 1 = count(j) + 1 => i = j
    <3>1. \A i \in D : count(i) \in Nat
      BY <1>6, <1>1
    <3> QED  BY <1>3, <1>7, <3>1
  <2> QED  BY <2>1, <2>2 DEF Injection, IsInjective
<1>9. rank \in Surjection(D, D)
  <2> HIDE DEF rank
  <2> QED  BY <1>1, <1>8, FS_Injection
<1>10. ASSUME NEW n \in D
       PROVE  \E i \in D : count(i) = n - 1
  <2>1. PICK i \in D : rank[i] = n
    BY <1>9 DEF Surjection
  <2> QED  BY <1>1, <1>6, <2>1
<1> DEFINE place == [n \in D |-> CHOOSE i \in DOMAIN steps : count(i) = n - 1]
<1>11. \A n \in D : place[n] \in D /\ count(place[n]) = n - 1
  <2> HIDE DEF count
  <2> QED  BY <1>1, <1>10
<1>12. place \in [D -> D]
  BY <1>11
<1>13. ASSUME NEW i \in D
       PROVE  \E n \in D : place[n] = i
  <2> DEFINE n == count(i) + 1
  <2>1. n \in D /\ count(i) = n - 1
    BY <1>1, <1>6
  <2> HIDE DEF n, place
  <2>2. place[n] \in D /\ count(place[n]) = count(i)
    BY <1>11, <2>1
  <2>3. place[n] = i
    <3>1. \A j \in D : count(j) \in Int
      BY <1>6, <1>1
    <3> HIDE DEF count
    <3> QED  BY <1>3, <1>7, <2>2, <3>1
  <2> QED  BY <2>1, <2>3
<1>14. ASSUME NEW m \in D, NEW n \in D, m < n
       PROVE  InFront(steps, level, place[m], place[n])
  <2> HIDE DEF place, count
  <2>1. /\ place[m] \in D /\ count(place[m]) = m - 1
        /\ place[n] \in D /\ count(place[n]) = n - 1
    BY <1>11
  <2>2. place[m] # place[n] /\ ~(count(place[n]) < count(place[m]))
    BY <1>1, <1>14, <2>1
  <2> QED  BY <1>3, <1>7, <2>1, <2>2
<1>15. \A n \in D : place[n] = CHOOSE i \in DOMAIN steps : Cardinality(Ahead(steps, level, i)) = n - 1
  OBVIOUS
<1> HIDE DEF place
<1> QED  BY <1>12, <1>13, <1>14, <1>15 DEF L

\* What is in order is the order topo_order gives.
LEMMA InOrderIsKept ==
    ASSUME NEW steps, NEW edges, steps \in Seq(ToSet(steps)), InOrder(steps, edges, steps)
    PROVE  TopoOrder(steps, edges) = steps
<1> DEFINE L == Len(steps)
<1>1. L \in Nat /\ DOMAIN steps = 1 .. L
  OBVIOUS
<1>2. PICK order :
            /\ TopoOrder(steps, edges) = order[L]
            /\ order[0] = << >>
            /\ \A n \in Nat : n < L => order[n + 1] = Longer(steps, edges, order[n])
  BY <1>1, OrderUnfolds
<1> DEFINE first(n) == [i \in 1 .. n |-> steps[i]]
           P == {n \in Nat : n <= L => order[n] = first(n)}
<1>3. 0 \in P
  <2>1. first(0) = << >>
    OBVIOUS
  <2> QED  BY <1>2, <2>1
<1>4. ASSUME NEW n \in Nat, n \in P
      PROVE  n + 1 \in P
  <2> SUFFICES ASSUME n + 1 <= L
               PROVE  order[n + 1] = first(n + 1)
    OBVIOUS
  <2> DEFINE done == first(n)
             ready == Ready(steps, edges, done)
  <2>1. order[n + 1] = Longer(steps, edges, done)
    BY <1>1, <1>2, <1>4
  <2>2. ToSet(done) = {steps[i] : i \in 1 .. n}
    BY DEF ToSet
  <2>3. n + 1 \in 1 .. L /\ 1 .. n \subseteq 1 .. L
    BY <1>1
  <2>4. n + 1 \in ready
    <3>1. steps[n + 1] \notin ToSet(done)
      BY <2>2, <2>3 DEF InOrder
    <3>2. Parents(steps, edges, steps[n + 1]) \subseteq {steps[i] : i \in 1 .. ((n + 1) - 1)}
      BY <2>3 DEF InOrder
    <3>3. (n + 1) - 1 = n
      OBVIOUS
    <3> HIDE DEF done
    <3> QED  BY <1>1, <2>2, <2>3, <3>1, <3>2, <3>3 DEF Ready
  <2>5. \A i \in ready : n + 1 <= i
    <3> SUFFICES ASSUME NEW i \in ready, ~(n + 1 <= i) PROVE FALSE
      OBVIOUS
    <3>1. i \in 1 .. L /\ steps[i] \notin ToSet(done)
      BY <1>1 DEF Ready
    <3>2. i \in 1 .. n
      BY <1>1, <3>1
    <3> QED  BY <2>2, <3>1, <3>2
  <2>6. Min(ready) = n + 1
    <3> DEFINE m == CHOOSE x \in ready : \A y \in ready : x <= y
    <3>1. m \in ready /\ m <= n + 1
      <4>1. \E x \in ready : \A y \in ready : x <= y
        BY <2>4, <2>5
      <4> HIDE DEF ready
      <4> QED  BY <2>4, <4>1
    <3>2. m \in Int
      BY <1>1, <3>1 DEF Ready
    <3> HIDE DEF ready
    <3>3. m = n + 1
      <4>1. n + 1 <= m
        BY <2>5, <3>1
      <4> HIDE DEF m
      <4> QED  BY <3>1, <3>2, <4>1
    <3> QED  BY <3>3 DEF Min
  <2>7. Longer(steps, edges, done) = Append(done, steps[n + 1])
    BY <2>4, <2>6 DEF Longer
  <2>8. Append(done, steps[n + 1]) = first(n + 1)
    <3>1. done \in Seq(ToSet(steps)) /\ Len(done) = n /\ steps[n + 1] \in ToSet(steps)
      <4>1. \A i \in 1 .. n : steps[i] \in ToSet(steps)
        BY <1>1, <2>3 DEF ToSet
      <4>2. steps[n + 1] \in ToSet(steps)
        BY <1>1, <2>3 DEF ToSet
      <4> QED  BY <4>1, <4>2, SeqDef
    <3>2. /\ Len(Append(done, steps[n + 1])) = n + 1
          /\ Append(done, steps[n + 1]) \in Seq(ToSet(steps))
          /\ \A i \in 1 .. (n + 1) : Append(done, steps[n + 1])[i] = first(n + 1)[i]
      BY <3>1
    <3>3. Append(done, steps[n + 1]) = [i \in 1 .. (n + 1) |-> Append(done, steps[n + 1])[i]]
      <4> HIDE DEF done
      <4> QED  BY <3>2
    <3> HIDE DEF done
    <3> QED  BY <3>2, <3>3
  <2> QED  BY <2>1, <2>7, <2>8
<1>5. L \in P
  <2> HIDE DEF P
  <2> QED  BY <1>1, <1>3, <1>4, EveryNatural
<1>6. first(L) = steps
  BY <1>1
<1> QED  BY <1>1, <1>2, <1>5, <1>6

\* However the steps of a validated workflow were declared, the workflow keeps each of
\* them once, behind the steps it depends on, and is executed in that order.
THEOREM KeptIsExecuted ==
    ASSUME NEW steps, NEW edges, steps \in Seq(ToSet(steps)), IsValid(steps, edges)
    PROVE  LET kept == Stored(steps, edges) IN
           /\ ToSet(kept) = ToSet(steps) /\ Len(kept) = Len(steps)
           /\ InOrder(kept, edges, kept)
           /\ TopoOrder(kept, edges) = kept
<1> DEFINE L == Len(steps)
           level == TopoLevels(steps, edges)
           kept == Stored(steps, edges)
<1>1. L \in Nat /\ DOMAIN steps = 1 .. L
  OBVIOUS
<1>2. /\ \A k \in ToSet(steps) : level[k] \in Nat
      /\ \A k \in ToSet(steps) : \A p \in Parents(steps, edges, k) :
            p \in ToSet(steps) /\ level[p] < level[k]
  BY LevelsRise
<1>3. kept = [n \in DOMAIN steps |->
                steps[CHOOSE i \in DOMAIN steps : Cardinality(Ahead(steps, level, i)) = n - 1]]
  BY DEF Stored, Ahead, InFront
<1> HIDE DEF level, kept
<1>4. PICK place \in [1 .. L -> 1 .. L] :
            /\ \A n \in 1 .. L : place[n] =
                CHOOSE i \in DOMAIN steps : Cardinality(Ahead(steps, level, i)) = n - 1
            /\ \A i \in 1 .. L : \E n \in 1 .. L : place[n] = i
            /\ \A m, n \in 1 .. L : m < n => InFront(steps, level, place[m], place[n])
  BY <1>2, SortedPlaces
<1>5. kept = [n \in 1 .. L |-> steps[place[n]]]
  BY <1>1, <1>3, <1>4
<1>6. \A n \in 1 .. L : /\ place[n] \in 1 .. L /\ kept[n] = steps[place[n]]
                        /\ kept[n] \in ToSet(steps)
  BY <1>1, <1>4, <1>5 DEF ToSet
<1>7. kept \in Seq(ToSet(steps)) /\ Len(kept) = L /\ DOMAIN kept = 1 .. L
  <2>1. kept \in [1 .. L -> ToSet(steps)]
    BY <1>5, <1>6
  <2> QED  BY <1>1, <2>1, SeqDef
<1>8. ToSet(kept) = ToSet(steps)
  <2>1. ASSUME NEW k \in ToSet(steps)
        PROVE  k \in ToSet(kept)
    <3>1. PICK i \in 1 .. L : k = steps[i]
      BY <1>1 DEF ToSet
    <3>2. PICK n \in 1 .. L : place[n] = i
      BY <1>4
    <3> QED  BY <1>6, <1>7, <3>1, <3>2 DEF ToSet
  <2>2. ToSet(kept) = {kept[n] : n \in 1 .. L}
    BY <1>7 DEF ToSet
  <2>3. ToSet(kept) \subseteq ToSet(steps)
    BY <1>6, <2>2
  <2> QED  BY <2>1, <2>3
<1>9. \A k : Parents(kept, edges, k) = Parents(steps, edges, k)
  BY <1>8 DEF Parents
<1>10. InOrder(kept, edges, kept)
  <2>1. \A m, n \in 1 .. L : m < n => kept[m] # kept[n]
    <3> SUFFICES ASSUME NEW m \in 1 .. L, NEW n \in 1 .. L, m < n PROVE kept[m] # kept[n]
      OBVIOUS
    <3>1. InFront(steps, level, place[m], place[n])
      BY <1>4
    <3>2. place[m] # place[n]
      BY <1>2, <1>6, <3>1 DEF InFront
    <3>3. IsInjective(steps)
      BY DEF IsValid, UniqueKeysAndRealEdges
    <3> QED  BY <1>1, <1>6, <3>2, <3>3 DEF IsInjective
  <2>2. ASSUME NEW n \in 1 .. L, NEW p \in Parents(steps, edges, kept[n])
        PROVE  p \in {kept[m] : m \in 1 .. (n - 1)}
    <3>1. p \in ToSet(kept) /\ level[p] < level[kept[n]] /\ level[p] \in Nat
      BY <1>2, <1>6, <1>8
    <3>2. PICK m \in 1 .. L : p = kept[m]
      BY <1>7, <3>1 DEF ToSet
    <3>3. ~(n < m) /\ m # n
      <4>1. n < m => InFront(steps, level, place[n], place[m])
        BY <1>4
      <4>2. level[kept[n]] \in Nat
        BY <1>2, <1>6
      <4>3. kept[n] = steps[place[n]] /\ p = steps[place[m]]
        BY <1>6, <3>2
      <4>4. ~InFront(steps, level, place[n], place[m])
        BY <3>1, <4>2, <4>3 DEF InFront
      <4>5. level[kept[n]] # level[p]
        BY <3>1, <4>2
      <4> QED  BY <3>2, <4>1, <4>4, <4>5
    <3> QED  BY <1>1, <3>2, <3>3
  <2> QED  BY <1>7, <1>8, <1>9, <2>1, <2>2 DEF InOrder
<1>11. TopoOrder(kept, edges) = kept
  BY <1>7, <1>8, <1>10, InOrderIsKept
<1> QED  BY <1>7, <1>8, <1>10, <1>11 DEF kept

-----------------------------------------------------------------------------
(* What keeps the rules can be executed. *)

\* Each rule is kept if none is broken.
LEMMA NoRuleBroken ==
    ASSUME NEW spec, ValidateSpec(spec) = {}
    PROVE  /\ ToolsExistAndEnabled(spec)
           /\ IsValid(StepKeys(spec), spec.edges)
           /\ SchemasCompatible(spec)
           /\ TriggerAndRequiredParams(spec)
<1> DEFINE V == [V1 |-> ToolsExistAndEnabled(spec),
                 V2 |-> UniqueKeysAndRealEdges(StepKeys(spec), spec.edges),
                 V3 |-> NoCycles(StepKeys(spec), spec.edges),
                 V4 |-> SchemasCompatible(spec),
                 V5 |-> TriggerAndRequiredParams(spec)]
<1>1. DOMAIN V = {"V1", "V2", "V3", "V4", "V5"}
  OBVIOUS
<1>2. {rule \in DOMAIN V : ~V[rule]} = {}
  BY DEF ValidateSpec
<1>3. V.V1 /\ V.V2 /\ V.V3 /\ V.V4 /\ V.V5
  <2> HIDE DEF V
  <2> QED  BY <1>1, <1>2
<1> QED  BY <1>3 DEF IsValid

\* The step of a key is one of the steps.
LEMMA StepOfKey ==
    ASSUME NEW spec, spec.steps \in Seq(ToSet(spec.steps)), NEW key \in ToSet(StepKeys(spec))
    PROVE  StepOf(spec, key) \in ToSet(spec.steps)
<1> DEFINE L == Len(spec.steps)
           places == {n \in DOMAIN spec.steps : spec.steps[n].key = key}
<1>1. L \in Nat /\ DOMAIN spec.steps = 1 .. L
  OBVIOUS
<1>2. places \subseteq 1 .. L /\ places # {}
  BY <1>1 DEF StepKeys, ToSet
<1>3. Max(places) \in places
  <2> HIDE DEF places
  <2> QED  BY <1>1, <1>2, Greatest
<1> QED  BY <1>3 DEF StepOf, ToSet

LEMMA KeysAreAList ==
    ASSUME NEW spec, spec.steps \in Seq(ToSet(spec.steps))
    PROVE  StepKeys(spec) \in Seq(ToSet(StepKeys(spec)))
<1>1. Len(spec.steps) \in Nat /\ DOMAIN spec.steps = 1 .. Len(spec.steps)
  OBVIOUS
<1>2. StepKeys(spec) \in [1 .. Len(spec.steps) -> ToSet(StepKeys(spec))]
  BY <1>1 DEF StepKeys, ToSet
<1> QED  BY <1>1, <1>2, SeqDef

LEMMA RulesMakeExecutable ==
    ASSUME NEW spec, spec.steps \in Seq(ToSet(spec.steps)), ValidateSpec(spec) = {}
    PROVE  Executable(spec)
<1> DEFINE keys == StepKeys(spec)
           kept == Stored(keys, spec.edges)
<1>1. /\ ToolsExistAndEnabled(spec) /\ IsValid(keys, spec.edges)
      /\ SchemasCompatible(spec) /\ TriggerAndRequiredParams(spec)
  BY NoRuleBroken
<1>2. keys \in Seq(ToSet(keys))
  BY KeysAreAList
<1>3. IsOrdered(keys, spec.edges)
  BY <1>1, <1>2, ValidatedIsOrdered
<1>4. ToSet(TopoOrder(kept, spec.edges)) = ToSet(keys)
  BY <1>1, <1>2, KeptIsExecuted
<1>5. ASSUME NEW key \in ToSet(keys)
      PROVE  /\ ToolOf(spec, key) \in DOMAIN TOOL_REGISTRY \ Disabled
             /\ TOOL_REGISTRY[ToolOf(spec, key)].params \subseteq StepOf(spec, key).given
  <2>1. StepOf(spec, key) \in ToSet(spec.steps)
    BY StepOfKey
  <2> QED  BY <1>1, <2>1 DEF ToolsExistAndEnabled, Enabled, TriggerAndRequiredParams, ToolOf
<1>6. ASSUME NEW key \in ToSet(keys), NEW parent \in Parents(keys, spec.edges, key)
      PROVE  TOOL_REGISTRY[ToolOf(spec, key)].required \subseteq
                UNION {TOOL_REGISTRY[ToolOf(spec, k)].properties :
                           k \in {parent} \cup Before(spec, parent)}
  <2>1. PICK e \in ToSet(spec.edges) : e.from = parent /\ e.to = key
    BY DEF Parents
  <2>2. parent \in ToSet(keys)
    BY DEF Parents
  <2>3. TOOL_REGISTRY[ToolOf(spec, key)].required
            \subseteq TOOL_REGISTRY[ToolOf(spec, parent)].properties
    BY <1>1, <1>5, <2>1, <2>2 DEF SchemasCompatible
  <2> QED  BY <2>3
<1> HIDE DEF keys
<1> QED  BY <1>3, <1>4, <1>5, <1>6 DEF Executable, keys

\* Whatever the model answers and whichever calls fail, an employee is saved only with
\* a workflow that the worker can go through: its steps have an order, tools that may
\* be used, the parameters these must have, and what they read is written before.
THEOREM SavedCanBeExecuted == Spec => []SavedWorkflowsRun
<1>1. IInv => SavedWorkflowsRun
  <2> SUFFICES ASSUME IInv, NEW d \in employees PROVE d \in DOMAIN Drafts /\ Executable(Drafts[d])
    BY DEF SavedWorkflowsRun, Runs
  <2>1. d \in DOMAIN Drafts /\ ValidateSpec(Drafts[d]) = {}
    BY DEF IInv, TypeOK, EmployeesAreValid, Errors
  <2> QED  BY <2>1, DraftsAssumption, RulesMakeExecutable
<1> QED  BY <1>1, Inductive, PTL
=============================================================================
