------------------------- MODULE AlertDialogsProofs -------------------------
(***************************************************************************)
(* Proofs about AlertDialogs, for any dialogs, callbacks that open others  *)
(* in any order, sizes of the window and moments at which a script turns   *)
(* repositionOnResize on or off.                                           *)
(***************************************************************************)
EXTENDS AlertDialogs, FiniteSetTheorems, TLAPS

\* One dialog at a time, which has been opened and waits for its answer, and
\* one overlay with it; a dialog that was not opened has not been answered.
DialogInv ==
    /\ container # {} => \E d \in Dialogs : container = {d}
    /\ overlay = IF container = {} THEN 0 ELSE 1
    /\ container \subseteq opened
    /\ \A d \in Dialogs : d \in container \/ d \notin opened => answer[d] = NoAnswer

\* The option stays on as long as no script may turn it off, and the handler is
\* bound once for a dialog that is up.
HandlerInv ==
    ~MayToggle => /\ reposition = TRUE
                  /\ handlers = IF container = {} THEN 0 ELSE 1

IInv == TypeOK /\ answer \in [Dialogs -> {answer[d] : d \in Dialogs}] /\ DialogInv /\ HandlerInv

-----------------------------------------------------------------------------
LEMMA InitIInv == AlertsAssumption /\ Init => IInv
BY DEF AlertsAssumption, Init, IInv, TypeOK, DialogInv, HandlerInv

(* The place of a dialog is a number of pixels, never above the window. *)
LEMMA TopIsInt ==
    ASSUME AlertsAssumption, NEW h \in Windows
    PROVE  TopFor(h) \in Nat
<1>1. h \div 2 \in Int /\ Height \div 2 \in Int /\ Offset \in Int
  BY DEF AlertsAssumption
<1>. QED
  BY <1>1 DEF TopFor

(* What _show leaves: this dialog and none else, whatever was up before. *)
LEMMA ShowIInv ==
    ASSUME AlertsAssumption, IInv, NEW d \in Dialogs, d \notin opened, Show(d),
           UNCHANGED <<reposition, window>>,
           answer' \in [Dialogs -> {answer'[e] : e \in Dialogs}],
           \A e \in Dialogs : answer'[e] \in Answers(Type[e]) \union {NoAnswer},
           \A e \in Dialogs : e = d \/ e \notin opened => answer'[e] = NoAnswer
    PROVE  IInv'
<1>1. container' = {d} /\ overlay' = 1 /\ opened' = opened \union {d}
  BY DEF Show
<1>2. top' \in Int
  BY TopIsInt DEF Show, IInv, TypeOK
<1>3. handlers' \in Nat
  BY DEF Show, Bound, IInv, TypeOK
<1>4. TypeOK'
  BY <1>1, <1>2, <1>3 DEF IInv, TypeOK
<1>5. DialogInv'
  BY <1>1 DEF IInv, DialogInv
<1>6. HandlerInv'
  BY <1>1 DEF Show, Bound, IInv, HandlerInv
<1>. QED
  BY <1>4, <1>5, <1>6 DEF IInv

(* An answer is one of those the dialog offers. *)
LEMMA AnswerTyped ==
    ASSUME AlertsAssumption, NEW d \in Dialogs, Ok(d) \/ Cancel(d)
    PROVE  \E a \in Answers(Type[d]) : d \in container /\ Press(d, a)
BY DEF AlertsAssumption, Ok, Cancel, Answers

(* A button answers the dialog and takes it down, and shows the one after it. *)
LEMMA PressIInv ==
    ASSUME AlertsAssumption, IInv, NEW d \in Dialogs, d \in container,
           NEW a \in Answers(Type[d]), Press(d, a)
    PROVE  IInv'
<1>. USE DEF IInv, DialogInv
<1>1. answer' = [answer EXCEPT ![d] = a] /\ UNCHANGED <<reposition, window>>
  BY DEF Press
<1>2. /\ answer' \in [Dialogs -> {answer'[e] : e \in Dialogs}]
      /\ \A e \in Dialogs : answer'[e] = IF e = d THEN a ELSE answer[e]
  BY <1>1
<1>3. \A e \in Dialogs : answer'[e] \in Answers(Type[e]) \union {NoAnswer}
  BY <1>2 DEF TypeOK
<1>4. d \in opened
  OBVIOUS
<1>5. CASE FollowUp[d] \in Dialogs \ opened
  <2>1. Show(FollowUp[d])
    BY <1>5 DEF Press
  <2>2. \A e \in Dialogs : e = FollowUp[d] \/ e \notin opened => answer'[e] = NoAnswer
    BY <1>2, <1>4, <1>5
  <2>. QED
    BY <1>1, <1>2, <1>3, <1>5, <2>1, <2>2, ShowIInv
<1>6. CASE FollowUp[d] \notin Dialogs \ opened
  <2>1. Hide
    BY <1>6 DEF Press
  <2>2. TypeOK'
    BY <1>1, <1>3, <2>1 DEF Hide, Bound, TypeOK
  <2>3. DialogInv'
    BY <1>2, <1>4, <2>1 DEF Hide
  <2>4. HandlerInv'
    BY <1>1, <2>1 DEF Hide, Bound, HandlerInv
  <2>. QED
    BY <1>2, <2>2, <2>3, <2>4
<1>. QED
  BY <1>5, <1>6

LEMMA NextIInv == AlertsAssumption /\ IInv /\ [Next]_vars => IInv'
<1>. SUFFICES ASSUME AlertsAssumption, IInv, [Next]_vars
              PROVE  IInv'
  OBVIOUS
<1>1. CASE UNCHANGED vars
  BY <1>1 DEF vars, IInv, TypeOK, DialogInv, HandlerInv
<1>2. ASSUME NEW d \in Dialogs, Call(d)
      PROVE  IInv'
  <2>1. d \notin opened /\ Show(d) /\ UNCHANGED <<reposition, window, answer>>
    BY <1>2 DEF Call
  <2>2. \A e \in Dialogs : e = d \/ e \notin opened => answer'[e] = NoAnswer
    BY <2>1 DEF IInv, DialogInv
  <2>3. /\ answer' \in [Dialogs -> {answer'[e] : e \in Dialogs}]
        /\ \A e \in Dialogs : answer'[e] \in Answers(Type[e]) \union {NoAnswer}
    BY <2>1 DEF IInv, TypeOK
  <2>. QED
    BY <2>1, <2>2, <2>3, ShowIInv
<1>3. ASSUME NEW d \in Dialogs, Ok(d) \/ Cancel(d) \/ Enter(d) \/ Escape(d)
      PROVE  IInv'
  <2>1. PICK a \in Answers(Type[d]) : d \in container /\ Press(d, a)
    BY <1>3, AnswerTyped DEF Enter, Escape
  <2>. QED
    BY <2>1, PressIInv
<1>4. ASSUME NEW h \in Windows, Resize(h)
      PROVE  IInv'
  <2>1. top' \in Int
    BY <1>4, TopIsInt DEF Resize, IInv, TypeOK
  <2>. QED
    BY <1>4, <2>1 DEF Resize, IInv, TypeOK, DialogInv, HandlerInv
<1>5. ASSUME NEW t \in Windows, Drag(t)
      PROVE  IInv'
  BY <1>5 DEF AlertsAssumption, Drag, IInv, TypeOK, DialogInv, HandlerInv
<1>6. CASE Toggle
  BY <1>6 DEF Toggle, IInv, TypeOK, DialogInv, HandlerInv
<1>. QED
  BY <1>1, <1>2, <1>3, <1>4, <1>5, <1>6 DEF Next

(* The invariant is inductive. *)
THEOREM Invariance == ASSUME AlertsAssumption PROVE Spec => []IInv
BY InitIInv, NextIInv, PTL DEF Spec

(* How many dialogs there are. *)
LEMMA HowMany ==
    ASSUME DialogInv
    PROVE  Cardinality(container) = IF container = {} THEN 0 ELSE 1
<1>1. CASE container = {}
  BY <1>1, FS_EmptySet
<1>2. CASE container # {}
  <2>1. PICK d \in Dialogs : container = {d}
    BY <1>2 DEF DialogInv
  <2>2. Cardinality({d}) = 1
    BY FS_Singleton
  <2>. QED
    BY <1>2, <2>1, <2>2
<1>. QED
  BY <1>1, <1>2

(* Every variable keeps its type. *)
THEOREM TypeCorrect == ASSUME AlertsAssumption PROVE Spec => []TypeOK
<1>1. IInv => TypeOK
  BY DEF IInv
<1>. QED
  BY Invariance, <1>1, PTL

(* One dialog or none is up and the page is covered exactly while there is one, *)
(* however dialogs replace and follow each other.                               *)
THEOREM CoveredThroughout == ASSUME AlertsAssumption PROVE Spec => []CoveredWhileAsking
<1>1. IInv => CoveredWhileAsking
  BY HowMany DEF IInv, DialogInv, CoveredWhileAsking
<1>. QED
  BY Invariance, <1>1, PTL

(* While no script touches the option, the resize handler is bound once for a *)
(* dialog that is up and gone with it.                                        *)
THEOREM HandlerStays ==
    ASSUME AlertsAssumption, ~MayToggle
    PROVE  Spec => []HandlerFollowsDialog
<1>1. IInv => HandlerFollowsDialog
  BY HowMany DEF IInv, HandlerInv, HandlerFollowsDialog
<1>. QED
  BY Invariance, <1>1, PTL

(* An answer is given by a button of the dialog that is up, to that one alone. *)
LEMMA AnswerStep ==
    ASSUME AlertsAssumption, IInv, [Next]_vars, NEW d \in Dialogs, answer'[d] # answer[d]
    PROVE  d \in container /\ \E a \in Answers(Type[d]) : Press(d, a)
<1>1. PICK e \in Dialogs : Ok(e) \/ Cancel(e) \/ Enter(e) \/ Escape(e)
  BY DEF Next, vars, Call, Resize, Drag, Toggle
<1>2. PICK a \in Answers(Type[e]) : e \in container /\ Press(e, a)
  BY <1>1, AnswerTyped DEF Enter, Escape
<1>3. e = d
  BY <1>2 DEF Press, IInv
<1>. QED
  BY <1>2, <1>3

(* A dialog is answered at most once, and only while it is up. *)
THEOREM AnsweredOnce == ASSUME AlertsAssumption PROVE Spec => AnsweredOnceWhileUp
<1>1. AlertsAssumption /\ IInv /\ [Next]_vars =>
         [\A d \in Dialogs :
            answer'[d] # answer[d] => answer[d] = NoAnswer /\ d \in container]_vars
  BY AnswerStep DEF IInv, DialogInv
<1>. QED
  BY Invariance, <1>1, PTL DEF Spec, AnsweredOnceWhileUp

(* The dialog that a callback opens is up when its handler is through. *)
THEOREM FollowUpStays == ASSUME AlertsAssumption PROVE Spec => FollowUpIsShown
<1>1. AlertsAssumption /\ IInv /\ [Next]_vars =>
         [\A d \in Dialogs :
            answer'[d] # answer[d] /\ FollowUp[d] \in Dialogs \ opened
               => container' = {FollowUp[d]} /\ overlay' = 1]_vars
  BY AnswerStep DEF Press, Show
<1>. QED
  BY Invariance, <1>1, PTL DEF Spec, FollowUpIsShown

(* A dialog that comes up, or whose window has changed, is in the middle of it *)
(* and not above.                                                             *)
LEMMA CentredStep ==
    ASSUME AlertsAssumption, ~MayToggle, IInv, [Next]_vars,
           container' # {}, container' # container \/ window' # window
    PROVE  top' = TopFor(window') /\ top' >= 0
<1>1. window \in Windows /\ IInv'
  BY NextIInv DEF IInv, TypeOK
<1>2. window' \in Windows
  BY <1>1 DEF IInv, TypeOK
<1>3. TopFor(window') \in Nat
  BY <1>2, TopIsInt
<1>4. CASE \E h \in Windows : Resize(h)
  <2>1. container' = container /\ handlers = 1
    BY <1>4 DEF Resize, IInv, HandlerInv
  <2>2. top' = TopFor(window')
    BY <1>4, <2>1 DEF Resize
  <2>. QED
    BY <1>3, <2>2
<1>5. CASE \E d \in Dialogs : Show(d) /\ UNCHANGED window
  BY <1>3, <1>5 DEF Show
<1>6. ASSUME NEW d \in Dialogs, Ok(d) \/ Cancel(d) \/ Enter(d) \/ Escape(d)
      PROVE  \E e \in Dialogs : Show(e) /\ UNCHANGED window
  <2>1. PICK a \in Answers(Type[d]) : d \in container /\ Press(d, a)
    BY <1>6, AnswerTyped DEF Enter, Escape
  <2>2. FollowUp[d] \in Dialogs
    BY <2>1 DEF Press, Hide
  <2>. QED
    BY <2>1, <2>2 DEF Press, Hide
<1>. QED
  BY <1>4, <1>5, <1>6 DEF Next, vars, Call, Drag, Toggle

(* While no script touches the option, a dialog is in the middle when it comes *)
(* up and when the window has changed, and never above the window.             *)
THEOREM StaysCentred == ASSUME AlertsAssumption, ~MayToggle PROVE Spec => Centred
<1>1. AlertsAssumption /\ ~MayToggle /\ IInv /\ [Next]_vars =>
         [container' # {} /\ (container' # container \/ window' # window)
            => top' = TopFor(window') /\ top' >= 0]_vars
  BY CentredStep
<1>. QED
  BY Invariance, <1>1, PTL DEF Spec, Centred
=============================================================================
