-------------------------- MODULE RTuinOSEventBits --------------------------
(***************************************************************************)
(* The event vectors of one suspended task at bit level, as rtos.c         *)
(* computes them on uint16_t: setEvent masks out the timer bits and ORs    *)
(* the posted vector, ANDed with the task's mask, into postedEventVec;     *)
(* onTimerTic ORs in a timer bit; checkForTaskActivation tests the wait    *)
(* condition with ^, & and ~.  RTuinOS.tla uses the set form of the same   *)
(* predicate (IsReleased); this module checks that the two agree.          *)
(*                                                                         *)
(* The vector is W bits wide instead of 16; the two top bits stand for    *)
(* the timer events and the lower bits for postable events.  Which bits   *)
(* they are does not matter to the predicate, only how many of each kind. *)
(***************************************************************************)
EXTENDS Naturals, Bitwise

CONSTANT W              \* width of the event vector

ASSUME W \in 3..8

Vectors == 0..(2^W - 1)
AllBits == 2^W - 1
ABSOLUTE_TIMER == 2^(W - 2)                  \* RTOS_EVT_ABSOLUTE_TIMER
DELAY_TIMER == 2^(W - 1)                     \* RTOS_EVT_DELAY_TIMER
TIMER_EVT_MASK == ABSOLUTE_TIMER | DELAY_TIMER

\* ~x on a W bit word.
Compl(x) == x ^^ AllBits

VARIABLES
    postedEventVec,     \* task_t.postedEventVec
    eventMask,          \* task_t.eventMask
    waitForAnyEvent     \* task_t.waitForAnyEvent

vars == <<postedEventVec, eventMask, waitForAnyEvent>>

\* Variant: "&" typed for "^" in the "all" test.
IsReleasedBitsAnd(eventVec, mask, any) ==
    \/ any /\ eventVec # 0
    \/ /\ ~any
       /\ \/ ((eventVec & mask) & Compl(TIMER_EVT_MASK)) = 0
          \/ (eventVec & mask & TIMER_EVT_MASK) # 0

\* The condition of checkForTaskActivation on the bit vectors.
IsReleasedBits(eventVec, mask, any) ==
    \/ any /\ eventVec # 0
    \/ /\ ~any
       /\ \/ ((eventVec ^^ mask) & Compl(TIMER_EVT_MASK)) = 0
          \/ (eventVec & mask & TIMER_EVT_MASK) # 0

\* The bits of x as a set of bit positions.
Bits(x) == {i \in 0..W-1 : (x \div 2^i) % 2 = 1}

\* The wait condition as rtos_waitForEvent documents it, on sets: with
\* "any", some event of the mask was posted; with "all", every postable event
\* of the mask was posted, or a timer event of the mask was posted.
ReleasedRef(posted, mask, any) ==
    LET p == Bits(posted)
        m == Bits(mask)
        T == Bits(TIMER_EVT_MASK)
    IN IF any THEN p # {}
              ELSE (m \ T) \subseteq p \/ (p \cap m \cap T) # {}

\* storeResumeCondition has set the mask; nothing is posted yet.
Init ==
    /\ postedEventVec = 0
    /\ eventMask \in Vectors
    /\ waitForAnyEvent \in BOOLEAN

Suspended == ~IsReleasedBits(postedEventVec, eventMask, waitForAnyEvent)

\* setEvent(v) for the suspended task.
SetEvent(v) ==
    LET postable == v & Compl(TIMER_EVT_MASK)
    IN /\ Suspended
       /\ postedEventVec' = postedEventVec | (postable & eventMask)
       /\ UNCHANGED <<eventMask, waitForAnyEvent>>

\* onTimerTic posts the timer event bit b of an elapsed timer.
TimerEvent(b) ==
    /\ Suspended
    /\ postedEventVec' = postedEventVec | (b & eventMask)
    /\ UNCHANGED <<eventMask, waitForAnyEvent>>

\* The task was released; when it runs again the return code has cleared
\* postedEventVec (PUSH_RET_CODE_OF_CONTEXT_SWITCH), and its next
\* rtos_waitForEvent stores a new resume condition.
Rewait ==
    /\ ~Suspended
    /\ postedEventVec' = 0
    /\ eventMask' \in Vectors
    /\ waitForAnyEvent' \in BOOLEAN

Next ==
    \/ \E v \in Vectors : SetEvent(v)
    \/ \E b \in {ABSOLUTE_TIMER, DELAY_TIMER} : TimerEvent(b)
    \/ Rewait

Spec == Init /\ [][Next]_vars

(* The bit arithmetic of checkForTaskActivation decides the wait condition *)
(* exactly as documented for rtos_waitForEvent, for every mask, both modes *)
(* and every vector setEvent and onTimerTic can accumulate.                *)
PredicateMatchesDoc ==
    IsReleasedBits(postedEventVec, eventMask, waitForAnyEvent)
      <=> ReleasedRef(postedEventVec, eventMask, waitForAnyEvent)

=============================================================================
