------------------------ MODULE FirmwareClockProofs ------------------------
(***************************************************************************)
(* Proofs about FirmwareClock and the two it consists of.  First about     *)
(* DelayedDispatch, for any requests, groups, delays, any size of the      *)
(* table and any depth of nested calls.  Then: the time the DXE core is    *)
(* told adds up for any frequency, period and depth of traps, and the      *)
(* delayed functions keep their promises from reset to the end of DXE.     *)
(***************************************************************************)
EXTENDS FirmwareClock, TLAPS

\* The table holds nothing but requests, and no more than it has slots.
TableOK ==
  /\ count <= DELAYED_DISPATCH_MAX_ENTRIES
  /\ \A s \in 1 .. count : entries[s].request \in Request

\* A call has looked at the entries up to slot n.
Seen(f, n) == \A s \in 1 .. count : s <= n => entries[s].request \in f.seen

\* A call that calls a function stands at a slot; as long as nobody has
\* deleted the entry there or one before it, the entry is the function's, and
\* what the loop has behind it has been looked at.
FrameOK(f) ==
  /\ f.at = "called" => f.calls \in Request /\ f.index + 1 \in Slot
  /\ f.at = "called" /\ f.kept =>
       /\ f.index < count /\ entries[f.index + 1].request = f.calls
       /\ Seen(f, f.index + 1)
  /\ f.at = "for" /\ f.kept => Seen(f, f.index)

\* Every call in progress but the last calls a function.
StackOK ==
  \A i \in 1 .. Len(stack) :
    FrameOK(stack[i]) /\ (i < Len(stack) => stack[i].at = "called")

\* The inductive invariant.  The table runs away only when a function returns
\* to a call whose entry was taken from under it.
IInv ==
  /\ TypeOK
  /\ ~corrupt => TableOK /\ StackOK
  /\ corrupt => stack # <<>> /\ ~Top.kept

-----------------------------------------------------------------------------
(* The table and the stack.                                                *)

LEMMA Numbers ==
  ASSUME TableAssumption, TypeOK
  PROVE  /\ count \in Nat /\ now \in Nat /\ DELAYED_DISPATCH_MAX_ENTRIES \in Nat
         /\ DELAYED_DISPATCH_MAX_ENTRIES < COUNT_MODULUS /\ COUNT_MODULUS \in Nat
         /\ PcdDelayedDispatchMaxDelayUs \in Nat
         /\ Slot = 1 .. DELAYED_DISPATCH_MAX_ENTRIES
BY DEF TableAssumption, TypeOK, Time, Slot

\* The frames of the stack.
LEMMA Frames ==
  ASSUME TypeOK
  PROVE  /\ Len(stack) \in Nat /\ stack = <<>> <=> Len(stack) = 0
         /\ \A i \in 1 .. Len(stack) : stack[i] \in Frame
         /\ stack # <<>> => Len(stack) \in 1 .. Len(stack) /\ Top \in Frame
BY DEF TypeOK, Top

LEMMA FrameFields ==
  ASSUME NEW f \in Frame
  PROVE  /\ f.index \in Nat /\ f.seen \in SUBSET Request
         /\ f.kept \in BOOLEAN /\ f.group \in Group \cup {NoGroup}
BY DEF Frame

\* A call whose function runs keeps its entry when the slots up to its own
\* keep their requests and Count stays beyond it.
LEMMA LowerStays ==
  ASSUME NEW f \in Frame, f.at = "called", FrameOK(f), count \in Nat, count' \in Nat,
         f.kept => /\ f.index < count'
                   /\ \A s \in 1 .. f.index + 1 : entries'[s].request = entries[s].request
  PROVE  FrameOK(f)'
PROOF
<1>1. f.index \in Nat
  BY FrameFields
<1>2. CASE ~f.kept
  BY <1>2 DEF FrameOK, Slot
<1>3. CASE f.kept
  <2>1. f.index < count /\ Seen(f, f.index + 1) /\ entries[f.index + 1].request = f.calls
    BY <1>3 DEF FrameOK
  <2>2. f.index < count' /\ \A s \in 1 .. f.index + 1 : entries'[s].request = entries[s].request
    BY <1>3
  <2>3. ASSUME NEW s \in 1 .. count', s <= f.index + 1
        PROVE  entries'[s].request \in f.seen
    <3>1. s \in 1 .. f.index + 1 /\ s \in 1 .. count
      BY <1>1, <2>1, <2>3
    <3> QED
      BY <2>1, <2>2, <2>3, <3>1 DEF Seen
  <2>4. f.index + 1 \in 1 .. f.index + 1
    BY <1>1
  <2> QED
    BY <2>1, <2>2, <2>3, <2>4 DEF FrameOK, Seen, Slot
<1> QED
  BY <1>2, <1>3

\* The stack is in order when each of its frames is.
LEMMA StackFrom ==
  ASSUME \A i \in 1 .. Len(stack') : \E f :
           /\ stack'[i] = f /\ FrameOK(f)'
           /\ i < Len(stack') => f.at = "called"
  PROVE  StackOK'
BY DEF StackOK, FrameOK, Seen

\* The call in progress goes on with another frame; no request moves.
LEMMA CallGoesOn ==
  ASSUME TableAssumption, IInv, ~corrupt, stack # <<>>,
         NEW g \in Frame, SetTop(g), FrameOK(g)',
         UNCHANGED <<count, now, phase, corrupt, state>>,
         entries' \in [Slot -> SlotType],
         \A s \in Slot : entries'[s].request = entries[s].request
  PROVE  IInv'
PROOF
<1>1. count \in Nat /\ Slot = 1 .. DELAYED_DISPATCH_MAX_ENTRIES
      /\ DELAYED_DISPATCH_MAX_ENTRIES \in Nat /\ count <= DELAYED_DISPATCH_MAX_ENTRIES
  BY Numbers DEF IInv, TableOK
<1>2. /\ stack' = [stack EXCEPT ![Len(stack)] = g] /\ stack \in Seq(Frame)
      /\ Len(stack) \in Nat /\ Len(stack) # 0
  BY Frames DEF SetTop, IInv, TypeOK
<1>3. stack' \in Seq(Frame) /\ Len(stack') = Len(stack)
      /\ \A i \in 1 .. Len(stack) : stack'[i] = IF i = Len(stack) THEN g ELSE stack[i]
  BY <1>2
<1>4. TypeOK'
  BY <1>3 DEF IInv, TypeOK
<1>5. TableOK'
  <2>1. \A s \in 1 .. count : s \in Slot
    BY <1>1
  <2> QED
    BY <1>1, <2>1 DEF IInv, TableOK
<1>6. ASSUME NEW i \in 1 .. Len(stack), i # Len(stack)
      PROVE  \E f : FrameOK(f)' /\ stack'[i] = f /\ f.at = "called"
  <2>0. stack[i] \in Frame /\ FrameOK(stack[i]) /\ stack[i].at = "called" /\ stack'[i] = stack[i]
    <3>1. i \in 1 .. Len(stack) /\ i < Len(stack) /\ stack[i] \in Frame
      BY <1>2, <1>6
    <3>2. StackOK
      BY DEF IInv
    <3> QED
      BY <1>3, <1>6, <3>1, <3>2 DEF StackOK
  <2>1. PICK f \in Frame : FrameOK(f) /\ f.at = "called" /\ stack'[i] = f
    BY <2>0
  <2>2. f.index \in Nat
    BY <2>1, FrameFields
  <2>3. ASSUME f.kept
        PROVE  /\ f.index < count'
               /\ \A s \in 1 .. f.index + 1 : entries'[s].request = entries[s].request
    <3>1. f.index < count
      BY <2>1, <2>3 DEF FrameOK
    <3>2. \A s \in 1 .. f.index + 1 : s \in Slot
      BY <1>1, <2>2, <3>1
    <3> QED
      BY <3>1, <3>2
  <2>4. FrameOK(f)'
    BY <1>1, <2>1, <2>3, LowerStays
  <2> QED
    BY <2>1, <2>4
<1>7. StackOK'
  <2>1. ASSUME NEW i \in 1 .. Len(stack')
        PROVE  \E f : stack'[i] = f /\ FrameOK(f)' /\ (i < Len(stack') => f.at = "called")
    <3>1. CASE i = Len(stack)
      BY <1>2, <1>3, <3>1
    <3>2. CASE i # Len(stack)
      BY <1>3, <1>6, <3>2
    <3> QED
      BY <3>1, <3>2
  <2> QED
    BY <2>1, StackFrom
<1> QED
  BY <1>4, <1>5, <1>7 DEF IInv

\* A call begins, after the table has grown or not; the caller is outside the
\* dispatcher, or a function that is called.
LEMMA CallBegins ==
  ASSUME TableAssumption, IInv, ~corrupt, ~corrupt',
         stack # <<>> => Top.at = "called",
         NEW g \in Group \cup {NoGroup}, DelayedDispatchDispatcher(g) \/ stack' = stack,
         count <= count', TableOK',
         \A s \in 1 .. count : entries'[s].request = entries[s].request,
         stack' \in Seq(Frame) => TypeOK'
  PROVE  IInv'
PROOF
<1>1. count \in Nat /\ now \in Nat
  BY Numbers DEF IInv
<1>2. PICK new \in Frame : new = NewFrame(g) /\ new.at = "while" /\ FrameOK(new)'
  <2>1. now + PcdDelayedDispatchCompletionTimeoutUs \in Nat
    BY <1>1 DEF TableAssumption
  <2>2. NewFrame(g) \in Frame /\ NewFrame(g).at = "while"
    BY <2>1 DEF NewFrame, Frame
  <2>3. \A f \in Frame : f.at = "while" => FrameOK(f)'
    BY DEF FrameOK
  <2> QED
    BY <2>2, <2>3
<1>3. stack \in Seq(Frame) /\ Len(stack) \in Nat
  BY Frames DEF IInv, TypeOK
<1>4. /\ stack' \in Seq(Frame)
      /\ \A i \in 1 .. Len(stack') :
           IF i <= Len(stack) THEN stack'[i] = stack[i]
           ELSE i = Len(stack') /\ stack'[i] = new
      /\ Len(stack') \in Nat
  <2>1. CASE DelayedDispatchDispatcher(g)
    <3>1. stack' = Append(stack, new)
      BY <1>2, <2>1 DEF DelayedDispatchDispatcher
    <3> QED
      BY <1>2, <1>3, <3>1
  <2>2. CASE stack' = stack
    BY <1>3, <2>2
  <2> QED
    BY <2>1, <2>2
<1>5. TypeOK'
  BY <1>4
<1>6. count' \in Nat
  BY <1>5 DEF TypeOK, TableAssumption
<1>7. ASSUME NEW i \in 1 .. Len(stack)
      PROVE  \E f : stack[i] = f /\ f.at = "called" /\ FrameOK(f)'
  <2>1. PICK f \in Frame : f = stack[i] /\ f.at = "called" /\ FrameOK(f)
    BY <1>3, Frames DEF IInv, StackOK, Top
  <2>2. f.index \in Nat
    BY <2>1, FrameFields
  <2>3. f.at = "called" /\ f.kept =>
           /\ f.index < count'
           /\ \A s \in 1 .. f.index + 1 : entries'[s].request = entries[s].request
    BY <1>1, <1>6, <2>1, <2>2 DEF FrameOK
  <2>4. f.at = "called" => FrameOK(f)'
    BY <1>1, <1>6, <2>1, <2>3, LowerStays
  <2> QED
    BY <2>1, <2>4
<1>8. StackOK'
  <2>1. ASSUME NEW i \in 1 .. Len(stack')
        PROVE  \E f : stack'[i] = f /\ FrameOK(f)' /\ (i < Len(stack') => f.at = "called")
    <3>1. CASE i <= Len(stack)
      BY <1>3, <1>4, <1>7, <3>1
    <3>2. CASE ~(i <= Len(stack))
      BY <1>2, <1>4, <3>2
    <3> QED
      BY <3>1, <3>2
  <2> QED
    BY <2>1, StackFrom
<1> QED
  BY <1>5, <1>8 DEF IInv

-----------------------------------------------------------------------------
(* The services.                                                           *)

LEMMA InitInv ==
  ASSUME TableAssumption, Init
  PROVE  IInv
PROOF
<1>1. stack \in Seq(Frame) /\ stack = <<>>
  BY DEF Init
<1>2. count = 0 /\ count \in 0 .. COUNT_MODULUS - 1 /\ now \in Time
  BY DEF Init, TableAssumption, Time
<1>3. entries \in [Slot -> SlotType]
  BY DEF Init, Unused, SlotType, Delay, TableAssumption
<1>4. TypeOK
  BY <1>1, <1>2, <1>3 DEF Init, TypeOK
<1>5. TableOK /\ StackOK
  BY <1>1, <1>2 DEF TableOK, StackOK, TableAssumption
<1> QED
  BY <1>4, <1>5 DEF Init, IInv

\* The services are called from outside the dispatcher or from a function.
LEMMA Callers ==
  ASSUME IInv, NEW nests, MayUsePpi(nests)
  PROVE  ~corrupt /\ (stack # <<>> => Top.at = "called")
BY DEF MayUsePpi, At, IInv

LEMMA RegisterInv ==
  ASSUME TableAssumption, IInv, NEW r \in Request, PeiDelayedDispatchRegister(r)
  PROVE  IInv'
PROOF
<1> USE DEF PeiDelayedDispatchRegister
<1>1. ~corrupt /\ ~corrupt' /\ (stack # <<>> => Top.at = "called")
  BY Callers
<1>2. /\ count \in Nat /\ TableOK /\ now \in Nat
      /\ DELAYED_DISPATCH_MAX_ENTRIES \in Nat /\ Slot = 1 .. DELAYED_DISPATCH_MAX_ENTRIES
      /\ DELAYED_DISPATCH_MAX_ENTRIES < COUNT_MODULUS /\ COUNT_MODULUS \in Nat
  BY <1>1, Numbers DEF IInv
<1>3. CASE Full
  <2>1. UNCHANGED <<entries, count, now, stack, phase, corrupt>>
    BY <1>3
  <2>2. state' \in [Request -> {"new", "refused", "waiting", "done", "dropped"}]
    BY <1>3 DEF IInv, TypeOK
  <2>3. TypeOK' /\ TableOK'
    BY <1>2, <2>1, <2>2 DEF IInv, TypeOK, TableOK
  <2> QED
    BY <1>1, <1>2, <2>1, <2>3, CallBegins
<1>4. CASE ~Full
  <2> DEFINE new == [request |-> r, dispatchTime |-> now + DelayOf[r],
                     delay |-> DelayOf[r]]
  <2>1. count < DELAYED_DISPATCH_MAX_ENTRIES /\ count + 1 \in Slot
    BY <1>2, <1>4 DEF Full, TableOK
  <2>2. new \in SlotType /\ new.request = r
    BY <1>2 DEF SlotType, Delay, TableAssumption
  <2>3. /\ entries' = [entries EXCEPT ![count + 1] = new]
        /\ count' = count + 1
        /\ state' = [state EXCEPT ![r] = "waiting"]
        /\ UNCHANGED <<now, phase, corrupt>>
        /\ DelayedDispatchDispatcher(NoGroup) \/ stack' = stack
    BY <1>4 DEF NewSlot
  <2> HIDE DEF new
  <2>4. /\ entries' \in [Slot -> SlotType]
        /\ \A s \in 1 .. count : entries'[s].request = entries[s].request
        /\ entries'[count + 1].request = r
    BY <1>2, <2>1, <2>2, <2>3 DEF IInv, TypeOK
  <2>5. TableOK'
    <3>1. \A s \in 1 .. count' : s = count + 1 \/ s \in 1 .. count
      BY <1>2, <2>3
    <3> QED
      BY <1>2, <2>1, <2>3, <2>4, <3>1 DEF TableOK
  <2>6. count' \in 0 .. COUNT_MODULUS - 1
    BY <1>2, <2>1, <2>3
  <2>7. stack' \in Seq(Frame) => TypeOK'
    BY <2>3, <2>4, <2>6 DEF IInv, TypeOK
  <2>8. count <= count'
    BY <1>2, <2>3
  <2> QED
    BY <1>1, <2>3, <2>4, <2>5, <2>7, <2>8, CallBegins
<1> QED
  BY <1>3, <1>4

\* A call begins while the table stays as it is.
LEMMA CallOnly ==
  ASSUME TableAssumption, IInv, ~corrupt, stack # <<>> => Top.at = "called",
         NEW g \in Group \cup {NoGroup}, DelayedDispatchDispatcher(g),
         UNCHANGED <<entries, count, now, phase, corrupt, state>>
  PROVE  IInv'
PROOF
<1>1. stack' \in Seq(Frame) => TypeOK'
  BY DEF IInv, TypeOK
<1>2. TableOK' /\ count \in Nat
  BY Numbers DEF IInv, TableOK
<1> QED
  BY <1>1, <1>2, CallBegins

\* A step that changes none but the phase.
LEMMA PhaseOnly ==
  ASSUME IInv, UNCHANGED <<entries, count, now, stack, corrupt, state>>,
         phase' \in {"pei", "ending", "ended"}
  PROVE  IInv'
BY DEF IInv, TypeOK, TableOK, StackOK, FrameOK, Seen, Top, Slot

LEMMA OutsideInv ==
  ASSUME TableAssumption, IInv
  PROVE  /\ \A g \in Group : PeiDelayedDispatchWaitOnEvent(g) => IInv'
         /\ DispatcherCycle => IInv'
         /\ PeiDelayedDispatchOnEndOfPei => IInv'
         /\ EndOfPeiLoop => IInv'
PROOF
<1>1. ASSUME NEW g \in Group, PeiDelayedDispatchWaitOnEvent(g)
      PROVE  IInv'
  BY <1>1, Callers, CallOnly DEF PeiDelayedDispatchWaitOnEvent
<1>2. stack = <<>> => ~corrupt
  BY DEF IInv
<1>3. ASSUME DispatcherCycle PROVE IInv'
  BY <1>2, <1>3, CallOnly DEF DispatcherCycle
<1>4. ASSUME PeiDelayedDispatchOnEndOfPei PROVE IInv'
  BY <1>4, PhaseOnly DEF PeiDelayedDispatchOnEndOfPei
<1>5. ASSUME EndOfPeiLoop PROVE IInv'
  <2>1. CASE count > 0
    BY <1>2, <1>5, <2>1, CallOnly DEF EndOfPeiLoop
  <2>2. CASE ~(count > 0)
    BY <1>5, <2>2, PhaseOnly DEF EndOfPeiLoop
  <2> QED
    BY <2>1, <2>2
<1> QED
  BY <1>1, <1>3, <1>4, <1>5

-----------------------------------------------------------------------------
(* The steps of DelayedDispatchDispatcher.                                 *)

\* The calls below the last one keep all but kept.
LEMMA BelowFrames ==
  ASSUME IInv, ~corrupt, stack # <<>>, NEW first \in Nat
  PROVE  /\ Below(first) \in Seq(Frame)
         /\ Len(Below(first)) = Len(stack) - 1
         /\ \A i \in 1 .. Len(stack) - 1 : \E f \in Frame :
              /\ Below(first)[i] = f /\ f.at = "called"
              /\ FrameOK(stack[i]) => FrameOK(f)
              /\ f.kept => f.index < first
PROOF
<1>1. Len(stack) \in Nat /\ Len(stack) # 0
  BY Frames DEF IInv
<1>2. ASSUME NEW i \in 1 .. Len(stack) - 1
      PROVE  \E f \in Frame :
               /\ Below(first)[i] = f /\ f.at = "called"
               /\ FrameOK(stack[i]) => FrameOK(f)
               /\ f.kept => f.index < first
  <2> DEFINE g == stack[i]
             k == g.kept /\ g.index < first
             f == [g EXCEPT !.kept = k]
  <2>1. g \in Frame /\ g.at = "called"
    BY <1>1, Frames DEF IInv, StackOK
  <2>2. Below(first)[i] = f
    BY <1>1 DEF Below, Frame
  <2>3. k \in BOOLEAN
    OBVIOUS
  <2>4. (k = TRUE) => g.kept /\ g.index < first
    OBVIOUS
  <2> HIDE DEF g, k
  <2>5. /\ f \in Frame /\ f.at = "called" /\ f.index = g.index
        /\ f.calls = g.calls /\ f.seen = g.seen /\ f.kept = k
    BY <2>1, <2>3 DEF Frame
  <2> HIDE DEF f
  <2>6. f.kept => g.kept /\ g.index < first
    BY <2>3, <2>4, <2>5
  <2>7. FrameOK(g) => FrameOK(f)
    BY <2>1, <2>5, <2>6 DEF FrameOK, Seen
  <2> QED
    BY <2>2, <2>5, <2>6, <2>7 DEF g
<1>3. Below(first) = [i \in 1 .. Len(stack) - 1 |-> Below(first)[i]]
  BY DEF Below
<1>4. Len(stack) - 1 \in Nat /\ \A i \in 1 .. Len(stack) - 1 : Below(first)[i] \in Frame
  BY <1>1, <1>2
<1> HIDE DEF Below
<1>5. Below(first) \in Seq(Frame) /\ Len(Below(first)) = Len(stack) - 1
  BY <1>3, <1>4
<1> QED
  BY <1>2, <1>5

\* A call returns; the table stays as it is, or is cleared.
LEMMA CallReturns ==
  ASSUME TableAssumption, IInv, CycleReturns \/ CompletionTimeout
  PROVE  IInv'
PROOF
<1>1. stack # <<>> /\ ~corrupt /\ ~corrupt'
  BY DEF CycleReturns, CompletionTimeout, At
<1>2. Len(stack) \in Nat /\ Len(stack) # 0 /\ stack \in Seq(Frame) /\ count \in Nat
      /\ DELAYED_DISPATCH_MAX_ENTRIES \in Nat
  BY <1>1, Frames, Numbers DEF IInv, TypeOK
<1>3. CASE CycleReturns
  <2>1. stack' = SubSeq(stack, 1, Len(stack) - 1)
        /\ UNCHANGED <<entries, count, now, phase, corrupt, state>>
    BY <1>3 DEF CycleReturns
  <2>2. /\ stack' \in Seq(Frame) /\ Len(stack') = Len(stack) - 1
        /\ \A i \in 1 .. Len(stack) - 1 : stack'[i] = stack[i]
    <3>1. Len(stack) - 1 \in 0 .. Len(stack)
      BY <1>2
    <3>2. stack' \in Seq(Frame) /\ Len(stack') = Len(stack) - 1
      <4> DEFINE n == Len(stack) - 1
      <4>1. n \in 0 .. Len(stack)
        BY <3>1
      <4> HIDE DEF n
      <4>2. SubSeq(stack, 1, n) \in Seq(Frame) /\ Len(SubSeq(stack, 1, n)) = n
        BY <1>2, <4>1
      <4> QED
        BY <2>1, <4>2 DEF n
    <3>3. \A i \in 1 .. Len(stack) - 1 : stack'[i] = stack[i]
      BY <1>2, <2>1, <3>1
    <3> QED
      BY <3>2, <3>3
  <2>3. TypeOK' /\ TableOK'
    BY <1>1, <2>1, <2>2 DEF IInv, TypeOK, TableOK
  <2>4. ASSUME NEW i \in 1 .. Len(stack')
        PROVE  \E f : stack'[i] = f /\ f.at = "called" /\ FrameOK(f)'
    <3>1. i \in 1 .. Len(stack) /\ i < Len(stack) /\ stack'[i] = stack[i]
      BY <1>2, <2>2
    <3>2. PICK f : f = stack[i] /\ FrameOK(f) /\ f.at = "called"
      BY <1>1, <3>1 DEF IInv, StackOK
    <3>3. FrameOK(f)'
      BY <2>1, <3>2 DEF FrameOK, Seen, Slot
    <3> QED
      BY <3>1, <3>2, <3>3
  <2>5. StackOK'
    BY <2>4, StackFrom
  <2> QED
    BY <1>1, <2>3, <2>5 DEF IInv
<1>4. CASE CompletionTimeout
  <2>1. stack' = Below(0) /\ count' = 0 /\ UNCHANGED <<entries, now, phase, corrupt>>
    BY <1>4 DEF CompletionTimeout
  <2>2. /\ stack' \in Seq(Frame) /\ Len(stack') = Len(stack) - 1
        /\ \A i \in 1 .. Len(stack) - 1 : \E f \in Frame :
              /\ stack'[i] = f /\ f.at = "called"
              /\ FrameOK(stack[i]) => FrameOK(f)
              /\ f.kept => f.index < 0
    BY <1>1, <2>1, BelowFrames
  <2>3. state' \in [Request -> {"new", "refused", "waiting", "done", "dropped"}]
    BY <1>4 DEF CompletionTimeout, IInv, TypeOK
  <2>4. count' \in 0 .. COUNT_MODULUS - 1
    BY <2>1 DEF TableAssumption
  <2>5. TypeOK' /\ TableOK'
    BY <1>2, <2>1, <2>2, <2>3, <2>4 DEF IInv, TypeOK, TableOK
  <2>6. ASSUME NEW i \in 1 .. Len(stack')
        PROVE  \E f : stack'[i] = f /\ f.at = "called" /\ FrameOK(f)'
    <3>1. i \in 1 .. Len(stack) - 1 /\ i \in 1 .. Len(stack)
      BY <1>2, <2>2
    <3>2. PICK f \in Frame : /\ stack'[i] = f /\ f.at = "called"
                             /\ FrameOK(stack[i]) => FrameOK(f)
                             /\ f.kept => f.index < 0
      BY <2>2, <3>1
    <3>3. FrameOK(f) /\ ~f.kept
      BY <1>1, <3>1, <3>2, FrameFields DEF IInv, StackOK
    <3>4. FrameOK(f)'
      BY <3>2, <3>3 DEF FrameOK, Slot
    <3> QED
      BY <3>2, <3>4
  <2>7. StackOK'
    BY <2>6, StackFrom
  <2> QED
    BY <1>1, <2>5, <2>7 DEF IInv
<1> QED
  BY <1>3, <1>4

LEMMA LoopInv ==
  ASSUME TableAssumption, IInv, CycleStarts \/ ForEnds
  PROVE  IInv'
PROOF
<1>1. stack # <<>> /\ ~corrupt /\ Top \in Frame /\ UNCHANGED <<entries, count, now, phase, corrupt, state>>
  BY Frames DEF CycleStarts, ForEnds, At, IInv
<1>2. PICK g \in Frame : SetTop(g) /\ g.at # "called" /\ (g.at = "for" => g.index = 0)
  <2> DEFINE f == Top
  <2>1. CASE CycleStarts
    <3> DEFINE h == [f EXCEPT !.at = "for", !.present = FALSE, !.index = 0,
                              !.seen = {}, !.kept = TRUE]
    <3>1. h \in Frame /\ h.at = "for" /\ h.index = 0
      BY <1>1 DEF Frame
    <3> QED
      BY <2>1, <3>1 DEF CycleStarts
  <2>2. CASE ForEnds
    <3> DEFINE h == [f EXCEPT !.at = "while"]
    <3>1. h \in Frame /\ h.at = "while"
      BY <1>1 DEF Frame
    <3> QED
      BY <2>2, <3>1 DEF ForEnds
  <2> QED
    BY <2>1, <2>2
<1>3. count \in Nat
  BY Numbers DEF IInv
<1>4. FrameOK(g)'
  BY <1>1, <1>2, <1>3 DEF FrameOK, Seen
<1>5. entries' \in [Slot -> SlotType]
  BY <1>1 DEF IInv, TypeOK
<1> QED
  BY <1>1, <1>2, <1>4, <1>5, CallGoesOn

\* The entry the loop stands at.
LEMMA CurrentEntryType ==
  ASSUME TableAssumption, IInv, ~corrupt, stack # <<>>, Top.index < count
  PROVE  /\ Top.index \in Nat /\ Top.index + 1 \in Slot /\ Top.index + 1 \in 1 .. count
         /\ CurrentEntry = entries[Top.index + 1]
         /\ CurrentEntry \in SlotType /\ CurrentEntry.request \in Request
PROOF
<1>1. Top.index \in Nat /\ count \in Nat /\ count <= DELAYED_DISPATCH_MAX_ENTRIES
  BY Frames, FrameFields, Numbers DEF IInv, TableOK
<1>2. Top.index + 1 \in Slot /\ Top.index + 1 \in 1 .. count
  BY <1>1, Numbers DEF IInv
<1> QED
  BY <1>1, <1>2 DEF CurrentEntry, IInv, TypeOK, TableOK

\* Looking at an entry adds its request to those seen.
LEMMA LookedType ==
  ASSUME TableAssumption, IInv, ~corrupt, stack # <<>>, Top.index < count
  PROVE  /\ Looked \in Frame
         /\ Looked.index = Top.index /\ Looked.at = Top.at /\ Looked.kept = Top.kept
         /\ Looked.seen = Top.seen \cup {CurrentEntry.request}
PROOF
<1> DEFINE f == Top
           again == f.present \/ (f.group # NoGroup /\ f.group = GroupOf[CurrentEntry.request])
           looked == f.seen \cup {CurrentEntry.request}
<1>1. f \in Frame /\ CurrentEntry.request \in Request
  BY CurrentEntryType, Frames DEF IInv
<1>2. again \in BOOLEAN /\ looked \in SUBSET Request
  BY <1>1 DEF Frame
<1>3. Looked = [f EXCEPT !.present = again, !.seen = looked]
  BY <1>1 DEF Looked, Frame
<1> HIDE DEF again, looked, f
<1>4. /\ Looked \in Frame
      /\ Looked.index = f.index /\ Looked.at = f.at /\ Looked.kept = f.kept
      /\ Looked.seen = looked
  BY <1>1, <1>2, <1>3 DEF Frame
<1> QED
  BY <1>4 DEF f, looked

\* With the entry at index looked at, the loop may go on behind it.
LEMMA LookedSeen ==
  ASSUME TableAssumption, IInv, At("for"), Top.index < count, Top.kept
  PROVE  Seen(Looked, Top.index + 1)
PROOF
<1>1. stack # <<>> /\ ~corrupt /\ Top.at = "for" /\ Len(stack) \in 1 .. Len(stack)
  BY Frames DEF At, IInv
<1>2. FrameOK(Top)
  BY <1>1 DEF IInv, StackOK, Top
<1>3. Seen(Top, Top.index)
  BY <1>1, <1>2 DEF FrameOK
<1>4. /\ Top.index \in Nat /\ CurrentEntry = entries[Top.index + 1]
      /\ Looked.seen = Top.seen \cup {CurrentEntry.request}
  BY <1>1, CurrentEntryType, LookedType
<1> SUFFICES ASSUME NEW s \in 1 .. count, s <= Top.index + 1
             PROVE  entries[s].request \in Looked.seen
  BY DEF Seen
<1>5. s <= Top.index \/ s = Top.index + 1
  BY <1>4
<1> QED
  BY <1>3, <1>4, <1>5 DEF Seen

LEMMA NotExpiredInv ==
  ASSUME TableAssumption, IInv, NotExpired
  PROVE  IInv'
PROOF
<1>1. stack # <<>> /\ ~corrupt /\ Top.index < count /\ At("for")
      /\ UNCHANGED <<entries, count, now, phase, corrupt, state>>
  BY DEF NotExpired, At
<1>2. /\ Looked \in Frame /\ Looked.index = Top.index /\ Looked.at = "for"
      /\ Looked.kept = Top.kept
  BY <1>1, LookedType DEF At
<1>3. PICK f \in Frame : f = Looked
  BY <1>2
<1>4. f.index \in Nat /\ f.at = "for"
  BY <1>2, <1>3, FrameFields
<1> DEFINE g == [f EXCEPT !.index = @ + 1]
<1>5. SetTop(g)
  BY <1>3 DEF NotExpired
<1>6. g \in Frame /\ g.at = "for" /\ g.index = f.index + 1 /\ g.kept = f.kept /\ g.seen = f.seen
  BY <1>4 DEF Frame
<1> HIDE DEF g
<1>7. f.kept => Seen(f, f.index + 1)
  BY <1>1, <1>2, <1>3, LookedSeen
<1>8. FrameOK(g)'
  BY <1>1, <1>6, <1>7 DEF FrameOK, Seen
<1>9. entries' \in [Slot -> SlotType]
  BY <1>1 DEF IInv, TypeOK
<1> QED
  BY <1>1, <1>5, <1>6, <1>8, <1>9, CallGoesOn

\* Writing the delay and the time of an entry keeps its request.
LEMMA EntryWritten ==
  ASSUME TableAssumption, IInv, NEW i \in Slot, NEW e \in SlotType,
         e.request = entries[i].request,
         entries' = [entries EXCEPT ![i] = e]
  PROVE  /\ entries' \in [Slot -> SlotType]
         /\ \A s \in Slot : entries'[s].request = entries[s].request
PROOF
<1>1. entries \in [Slot -> SlotType]
  BY DEF IInv, TypeOK
<1> QED
  BY <1>1

LEMMA ExpiredInv ==
  ASSUME TableAssumption, IInv, Expired
  PROVE  IInv'
PROOF
<1>1. stack # <<>> /\ ~corrupt /\ Top.index < count /\ At("for")
      /\ UNCHANGED <<count, now, phase, corrupt, state>>
  BY DEF Expired, At
<1>2. /\ Looked \in Frame /\ Looked.index = Top.index /\ Looked.kept = Top.kept
  BY <1>1, LookedType
<1>3. /\ Top.index \in Nat /\ Top.index + 1 \in Slot /\ Top.index + 1 \in 1 .. count
      /\ CurrentEntry = entries[Top.index + 1]
      /\ CurrentEntry \in SlotType /\ CurrentEntry.request \in Request
  BY <1>1, CurrentEntryType
<1>4. PICK f \in Frame, c \in SlotType : f = Looked /\ c = CurrentEntry
  BY <1>2, <1>3
<1> DEFINE g == [f EXCEPT !.at = "called", !.calls = c.request]
           e == [c EXCEPT !.delay = 0]
<1>5. SetTop(g) /\ entries' = [entries EXCEPT ![Top.index + 1] = e]
  BY <1>3, <1>4 DEF Expired, IInv, TypeOK
<1>6. f.kept => Seen(f, f.index + 1)
  BY <1>1, <1>2, <1>4, LookedSeen
<1>7. /\ f.index = Top.index /\ f.index \in Nat
      /\ c.request \in Request /\ c = entries[f.index + 1]
  BY <1>2, <1>3, <1>4
<1>8. /\ g \in Frame /\ g.at = "called" /\ g.index = f.index /\ g.kept = f.kept
      /\ g.seen = f.seen /\ g.calls = c.request
  BY <1>7 DEF Frame
<1>9. e \in SlotType /\ e.request = entries[Top.index + 1].request
  BY <1>7 DEF SlotType, Delay, TableAssumption
<1> HIDE DEF g, e
<1>10. /\ entries' \in [Slot -> SlotType]
       /\ \A s \in Slot : entries'[s].request = entries[s].request
  BY <1>3, <1>5, <1>9, EntryWritten
<1>11. \A s \in 1 .. count : s \in Slot
  BY <1>1, Numbers DEF IInv, TableOK
<1>12. FrameOK(g)'
  <2>1. g.kept => Seen(g, g.index + 1)'
    BY <1>1, <1>6, <1>8, <1>10, <1>11 DEF Seen
  <2>2. g.calls \in Request /\ g.index + 1 \in Slot /\ g.index < count'
    BY <1>1, <1>3, <1>7, <1>8
  <2>3. entries'[g.index + 1].request = g.calls
    BY <1>3, <1>7, <1>8, <1>10
  <2> QED
    BY <1>8, <2>1, <2>2, <2>3 DEF FrameOK, Slot
<1> QED
  BY <1>1, <1>5, <1>8, <1>10, <1>12, CallGoesOn

-----------------------------------------------------------------------------
(* The function returns.                                                   *)

\* The call of a function, and the entry its slot holds.
LEMMA Called ==
  ASSUME TableAssumption, IInv, At("called")
  PROVE  /\ stack # <<>> /\ ~corrupt /\ Top \in Frame /\ Top.at = "called"
         /\ Len(stack) \in 1 .. Len(stack)
         /\ FrameOK(Top) /\ Top.index \in Nat /\ Top.index + 1 \in Slot
         /\ CurrentEntry = entries[Top.index + 1] /\ CurrentEntry \in SlotType
         /\ Top.calls \in Request
PROOF
<1>1. stack # <<>> /\ ~corrupt /\ Top \in Frame /\ Top.at = "called" /\ Len(stack) \in 1 .. Len(stack)
  BY Frames DEF At, IInv
<1>2. FrameOK(Top)
  BY <1>1 DEF IInv, StackOK, Top
<1>3. Top.index \in Nat /\ Top.index + 1 \in Slot /\ Top.calls \in Request
  BY <1>1, <1>2, FrameFields DEF FrameOK
<1> QED
  BY <1>1, <1>2, <1>3 DEF CurrentEntry, IInv, TypeOK

\* When nobody has touched the entry, Count goes down by one and CopyMem moves
\* the entries behind it; else the table may run away, and nothing follows.
LEMMA DeleteInv ==
  ASSUME TableAssumption, IInv, At("called"), Delete
  PROVE  IInv'
PROOF
<1>1. PICK f \in Frame :
      /\ f = Top /\ stack # <<>> /\ ~corrupt /\ f.at = "called" /\ FrameOK(f)
      /\ f.index \in Nat /\ f.index + 1 \in Slot /\ f.calls \in Request
      /\ Len(stack) \in 1 .. Len(stack) /\ Len(stack) \in Nat
  BY Called, Frames DEF IInv
<1> DEFINE g == [f EXCEPT !.at = "for"]
           runs == count = 0 \/ count - 1 < f.index
<1>2. /\ count \in Nat /\ count <= DELAYED_DISPATCH_MAX_ENTRIES
      /\ DELAYED_DISPATCH_MAX_ENTRIES \in Nat
      /\ COUNT_MODULUS \in Nat /\ DELAYED_DISPATCH_MAX_ENTRIES < COUNT_MODULUS
      /\ Slot = 1 .. DELAYED_DISPATCH_MAX_ENTRIES
  BY <1>1, Numbers DEF IInv, TableOK
<1>3. /\ corrupt' = runs /\ count' = (count - 1) % COUNT_MODULUS
      /\ entries' = IF corrupt' THEN entries ELSE CopyMem(f.index)
      /\ stack' = Append(Below(f.index), g)
      /\ UNCHANGED <<now, phase>>
  BY <1>1 DEF Delete, SameAfterDelete
<1>4. state' \in [Request -> {"new", "refused", "waiting", "done", "dropped"}]
  BY DEF Delete, IInv, TypeOK
<1>5. /\ g \in Frame /\ g.at = "for" /\ g.index = f.index /\ g.seen = f.seen
      /\ g.kept = f.kept
  BY <1>1 DEF Frame
<1> HIDE DEF g
<1>6. /\ Below(f.index) \in Seq(Frame) /\ Len(Below(f.index)) = Len(stack) - 1
      /\ \A i \in 1 .. Len(stack) - 1 : \E h \in Frame :
           /\ Below(f.index)[i] = h /\ h.at = "called"
           /\ FrameOK(stack[i]) => FrameOK(h)
           /\ h.kept => h.index < f.index
  BY <1>1, BelowFrames
<1>7. /\ stack' \in Seq(Frame) /\ Len(stack') = Len(stack) /\ stack' # <<>>
      /\ stack'[Len(stack)] = g
      /\ \A i \in 1 .. Len(stack) - 1 : stack'[i] = Below(f.index)[i]
  BY <1>1, <1>3, <1>5, <1>6
<1>8. count' \in 0 .. COUNT_MODULUS - 1
  BY <1>2, <1>3
<1>9. entries \in [Slot -> SlotType]
  BY DEF IInv, TypeOK
<1>10. /\ entries' \in [Slot -> SlotType]
       /\ ~runs => \A s \in Slot : entries'[s] =
             IF s > f.index /\ s < count THEN entries[s + 1] ELSE entries[s]
  <2>1. CASE runs
    BY <1>3, <1>9, <2>1
  <2>2. CASE ~runs
    <3>1. entries' = [s \in Slot |-> IF s > f.index /\ s < count THEN entries[s + 1] ELSE entries[s]]
      BY <1>3, <2>2 DEF CopyMem
    <3>2. \A s \in Slot : s < count => s + 1 \in Slot
      BY <1>2
    <3> QED
      BY <1>9, <3>1, <3>2
  <2> QED
    BY <2>1, <2>2
<1>11. TypeOK'
  <2>1. corrupt' \in BOOLEAN
    BY <1>3
  <2>2. now' \in Time /\ phase' \in {"pei", "ending", "ended"}
    BY <1>3 DEF IInv, TypeOK
  <2> QED
    BY <1>4, <1>7, <1>8, <1>10, <2>1, <2>2 DEF TypeOK
<1>12. CASE runs
  <2>1. ~f.kept
    BY <1>1, <1>2, <1>12 DEF FrameOK
  <2>2. corrupt'
    BY <1>3, <1>12
  <2>3. Top' = g
    BY <1>7 DEF Top
  <2> QED
    BY <1>5, <1>7, <1>11, <2>1, <2>2, <2>3 DEF IInv
<1>13. CASE ~runs
  <2>1. ~corrupt'
    BY <1>3, <1>13
  <2>2. count' = count - 1 /\ f.index < count
    <3>1. count \in Nat /\ count # 0 /\ f.index < count
      BY <1>1, <1>2, <1>13
    <3>2. count - 1 \in 0 .. COUNT_MODULUS - 1
      BY <1>2, <3>1
    <3>3. (count - 1) % COUNT_MODULUS = count - 1
      BY <1>2, <3>2
    <3> QED
      BY <1>3, <3>1, <3>3
  <2>3. ASSUME NEW s \in 1 .. count'
        PROVE  /\ s \in Slot /\ s \in 1 .. count /\ s + 1 \in 1 .. count
               /\ entries'[s] = IF s > f.index THEN entries[s + 1] ELSE entries[s]
    BY <1>2, <1>10, <1>13, <2>2
  <2>4. TableOK'
    <3>1. \A s \in 1 .. count : entries[s].request \in Request
      BY <1>1 DEF IInv, TableOK
    <3>2. \A s \in 1 .. count' : entries'[s].request \in Request
      BY <2>3, <3>1
    <3> QED
      BY <1>2, <2>2, <3>2 DEF TableOK
  <2>5. FrameOK(g)'
    <3>1. ASSUME f.kept, NEW s \in 1 .. count', s <= f.index
          PROVE  entries'[s].request \in f.seen
      <4>1. Seen(f, f.index + 1)
        BY <1>1, <3>1 DEF FrameOK
      <4>2. entries'[s] = entries[s] /\ s \in 1 .. count /\ s <= f.index + 1
        BY <1>1, <2>3, <3>1
      <4> QED
        BY <4>1, <4>2 DEF Seen
    <3> QED
      BY <1>5, <3>1 DEF FrameOK, Seen
  <2>6. ASSUME NEW i \in 1 .. Len(stack) - 1
        PROVE  \E h : stack'[i] = h /\ h.at = "called" /\ FrameOK(h)'
    <3>1. PICK h \in Frame : /\ stack'[i] = h /\ h.at = "called"
                             /\ FrameOK(stack[i]) => FrameOK(h)
                             /\ h.kept => h.index < f.index
      BY <1>6, <1>7
    <3>2. i \in 1 .. Len(stack)
      BY <1>1
    <3>3. FrameOK(h) /\ h.index \in Nat
      BY <1>1, <3>1, <3>2, FrameFields DEF IInv, StackOK
    <3>4. ASSUME h.kept
          PROVE  /\ h.index < count'
                 /\ \A s \in 1 .. h.index + 1 : entries'[s].request = entries[s].request
      <4>1. h.index < f.index
        BY <3>1, <3>4
      <4>2. h.index < count'
        BY <1>1, <1>2, <2>2, <3>3, <4>1
      <4>3. ASSUME NEW s \in 1 .. h.index + 1 PROVE entries'[s] = entries[s]
        <5>1. s \in 1 .. count' /\ ~(s > f.index)
          BY <1>1, <1>2, <2>2, <3>3, <4>1, <4>2
        <5> QED
          BY <2>3, <5>1
      <4> QED
        BY <4>2, <4>3
    <3>5. count' \in Nat
      BY <1>2, <2>2, <1>1
    <3>6. FrameOK(h)'
      BY <1>2, <3>1, <3>3, <3>4, <3>5, LowerStays
    <3> QED
      BY <3>1, <3>6
  <2>7. \A i \in 1 .. Len(stack) : i = Len(stack) \/ (i \in 1 .. Len(stack) - 1)
    BY <1>1
  <2>8. StackOK'
    <3>1. ASSUME NEW i \in 1 .. Len(stack')
          PROVE  \E h : stack'[i] = h /\ FrameOK(h)' /\ (i < Len(stack') => h.at = "called")
      <4>1. CASE i = Len(stack)
        BY <1>7, <2>5, <4>1
      <4>2. CASE i # Len(stack)
        BY <1>7, <2>6, <2>7, <4>2
      <4> QED
        BY <4>1, <4>2
    <3> QED
      BY <3>1, StackFrom
  <2> QED
    BY <1>11, <2>1, <2>4, <2>8 DEF IInv
<1> QED
  BY <1>12, <1>13

LEMMA RearmInv ==
  ASSUME TableAssumption, IInv, At("called"), NEW d \in Nat, Rearm(d)
  PROVE  IInv'
PROOF
<1>1. PICK f \in Frame, c \in SlotType :
      /\ f = Top /\ c = CurrentEntry
      /\ stack # <<>> /\ ~corrupt /\ f.at = "called" /\ FrameOK(f)
      /\ f.index \in Nat /\ f.index + 1 \in Slot /\ c = entries[f.index + 1]
  BY Called
<1> DEFINE g == [f EXCEPT !.at = "for", !.index = @ + 1]
<1>2. PICK allowed \in Delay :
        /\ entries' = [entries EXCEPT ![Top.index + 1] =
             [@ EXCEPT !.delay = allowed, !.dispatchTime = now + allowed]]
        /\ SetTop([Top EXCEPT !.at = "for", !.index = @ + 1])
        /\ UNCHANGED <<count, now, phase, corrupt, state>>
  <2> DEFINE a == IF d > PcdDelayedDispatchMaxDelayUs
                  THEN PcdDelayedDispatchMaxDelayUs ELSE d
  <2>1. a \in Delay
    BY DEF Delay, TableAssumption
  <2> QED
    BY <2>1 DEF Rearm
<1>3. now + allowed \in Nat
  BY DEF IInv, TypeOK, Time, Delay, TableAssumption
<1> DEFINE e == [c EXCEPT !.delay = allowed, !.dispatchTime = now + allowed]
<1>4. entries' = [entries EXCEPT ![f.index + 1] = e] /\ SetTop(g)
  BY <1>1, <1>2 DEF IInv, TypeOK
<1>5. e \in SlotType /\ e.request = entries[f.index + 1].request
  BY <1>1, <1>3 DEF SlotType
<1>6. /\ g \in Frame /\ g.at = "for" /\ g.index = f.index + 1 /\ g.kept = f.kept
      /\ g.seen = f.seen
  <2>1. f.index + 1 \in Nat
    BY <1>1
  <2> QED
    BY <2>1 DEF Frame
<1> HIDE DEF e, g
<1>7. /\ entries' \in [Slot -> SlotType]
      /\ \A s \in Slot : entries'[s].request = entries[s].request
  BY <1>1, <1>4, <1>5, EntryWritten
<1>8. \A s \in 1 .. count : s \in Slot
  BY <1>1, Numbers DEF IInv, TableOK
<1>9. FrameOK(g)'
  <2>1. f.kept => Seen(f, f.index + 1)
    BY <1>1 DEF FrameOK
  <2> QED
    BY <1>2, <1>6, <1>7, <1>8, <2>1 DEF FrameOK, Seen
<1> QED
  BY <1>1, <1>2, <1>4, <1>6, <1>7, <1>9, CallGoesOn

LEMMA FunctionInv ==
  ASSUME TableAssumption, IInv, FunctionDone \/ FunctionAgain
  PROVE  IInv'
PROOF
<1>1. At("called")
  BY DEF FunctionDone, FunctionAgain
<1>2. CASE FunctionDone
  <2>1. CurrentEntry \in SlotType
    BY <1>1, Called
  <2>2. CurrentEntry.delay \in Nat
    BY <2>1 DEF SlotType, Delay
  <2> QED
    BY <1>1, <1>2, <2>2, DeleteInv, RearmInv DEF FunctionDone
<1>3. CASE FunctionAgain
  <2>1. PICK d \in 1 .. PcdDelayedDispatchMaxDelayUs + 1 : Rearm(d)
    BY <1>3 DEF FunctionAgain
  <2>2. d \in Nat
    BY DEF TableAssumption
  <2> QED
    BY <1>1, <2>1, <2>2, RearmInv
<1> QED
  BY <1>2, <1>3

LEMMA TickInv ==
  ASSUME TableAssumption, IInv, Tick
  PROVE  IInv'
PROOF
<1>1. now' \in Time
  BY DEF Tick, IInv, TypeOK, Time, TableAssumption
<1> QED
  BY <1>1 DEF Tick, IInv, TypeOK, TableOK, StackOK, FrameOK, Seen, Top, Slot

-----------------------------------------------------------------------------
(* The theorems.                                                           *)

LEMMA NextInv ==
  ASSUME TableAssumption, IInv, [Next]_vars
  PROVE  IInv'
PROOF
<1>1. CASE UNCHANGED vars
  BY <1>1 DEF vars, IInv, TypeOK, TableOK, StackOK, FrameOK, Seen, Top, Slot
<1>2. CASE Over
  BY <1>2 DEF Over, vars, IInv, TypeOK, TableOK, StackOK, FrameOK, Seen, Top, Slot
<1>3. CASE Ppi
  BY <1>3, RegisterInv, OutsideInv DEF Ppi
<1>4. CASE DispatcherCycle \/ PeiDelayedDispatchOnEndOfPei
  BY <1>4, OutsideInv
<1>5. CASE Core
  BY <1>5, OutsideInv, CallReturns, LoopInv, NotExpiredInv, ExpiredInv DEF Core
<1>6. CASE FunctionDone \/ FunctionAgain
  BY <1>6, FunctionInv
<1>7. CASE Tick
  BY <1>7, TickInv
<1> QED
  BY <1>1, <1>2, <1>3, <1>4, <1>5, <1>6, <1>7 DEF Next

LEMMA Invariance == Spec => []IInv
PROOF
<1>1. Init => IInv
  BY TableAssumption, InitInv
<1>2. IInv /\ [Next]_vars => IInv'
  BY TableAssumption, NextInv
<1> QED
  BY <1>1, <1>2, PTL DEF Spec

\* Types are kept, however deep functions nest: the delays stay within the
\* longest allowed, and what a slot holds stays an entry.
THEOREM TypeCorrect == Spec => []TypeOK
PROOF
<1>1. IInv => TypeOK
  BY DEF IInv
<1> QED
  BY <1>1, Invariance, PTL

\* The assertion of PeiDelayedDispatchRegister holds until a function returns
\* whose entry a nested cycle deleted or moved: only then does Count wrap, or
\* CopyMem get a length below zero.
THEOREM CountAsserted == Spec => []CountInRange
PROOF
<1>1. IInv => CountInRange
  BY DEF IInv, CountInRange, TableOK
<1> QED
  BY <1>1, Invariance, PTL

LEMMA EntryKept ==
  ASSUME TableAssumption, IInv
  PROVE  EntryStays
PROOF
<1> SUFFICES ASSUME ~corrupt, NEW i \in 1 .. Len(stack), stack[i].at = "called", stack[i].kept
             PROVE  /\ stack[i].index < count
                    /\ entries[stack[i].index + 1].request = stack[i].calls
  BY DEF EntryStays
<1>1. FrameOK(stack[i])
  BY DEF IInv, StackOK
<1> QED
  BY <1>1 DEF FrameOK

\* The pointer held over the call of a function points to its entry, whatever
\* is registered, called again and deleted behind it by calls nested to any
\* depth, until one of them deletes the entry itself or one before it.
THEOREM PointerStays == Spec => []EntryStays
PROOF
<1>1. IInv => EntryStays
  BY TableAssumption, EntryKept
<1> QED
  BY <1>1, Invariance, PTL

LEMMA SeenWhenEnded ==
  ASSUME TableAssumption, IInv
  PROVE  NobodySkipped
PROOF
<1> SUFFICES ASSUME ~corrupt, NEW i \in 1 .. Len(stack), stack[i].at = "for",
                    stack[i].index >= count, stack[i].kept
             PROVE  InTable \subseteq stack[i].seen
  BY DEF NobodySkipped
<1> DEFINE f == stack[i]
<1>1. f \in Frame /\ FrameOK(f) /\ count \in Nat
  BY Frames, Numbers DEF IInv, StackOK
<1>2. f.index \in Nat /\ Seen(f, f.index)
  BY <1>1, FrameFields DEF FrameOK
<1> QED
  BY <1>1, <1>2 DEF Seen, InTable

\* A cycle looks at every entry: also at those that move down behind one that
\* is deleted, and those that are added while functions run, unless a nested
\* cycle deletes one it has behind it.
THEOREM NobodyIsSkipped == Spec => []NobodySkipped
PROOF
<1>1. IInv => NobodySkipped
  BY TableAssumption, SeenWhenEnded
<1> QED
  BY <1>1, Invariance, PTL

-----------------------------------------------------------------------------
(* The clock, and both together.                                           *)

Places == {"period", "disable", "program", "enable",
           "entered", "raised", "told", "events", "leaving"}
Call   == [at : Places, from : Nat, start : Nat, stie : BOOLEAN, duration : Nat]

ClockTypeOK ==
  /\ mtime \in Nat
  /\ timer \in [period : Nat, last : Int, notify : BOOLEAN]
  /\ hart \in [ie : BOOLEAN, stie : BOOLEAN, compare : Int, epc : Nat]
  /\ running \in Seq(Call)
  /\ heard \in [since : Int, units : Int, times : Nat]

\* Once the DXE core has registered, the period is only ever set to 0: no call
\* of SetTimerPeriod is left that would begin a new count.
OnlyStops(c) == ~(c.at = "program" \/ (c.at = "period" /\ c.duration # 0))

CInv ==
  /\ ClockTypeOK
  /\ timer.notify => \A i \in 1 .. Len(running) : OnlyStops(running[i])
  /\ TimeAddsUp
  /\ phase # "dxe" => running = <<>> /\ ~timer.notify

-----------------------------------------------------------------------------
(* Rounding: two spans rounded down lose at most one unit against their sum. *)
LEMMA UnitsOfSum ==
  ASSUME ClockAssumption, NEW x \in Int, NEW y \in Int
  PROVE  /\ Units(x) \in Int /\ Units(x + y) \in Int
         /\ Units(x) + Units(y) <= Units(x + y)
         /\ Units(x + y) <= Units(x) + Units(y) + 1
PROOF
<1>1. CrystalClock \in Nat \ {0}
  BY DEF ClockAssumption
<1>2. ASSUME NEW a \in Int, NEW b \in Int
      PROVE  /\ a \div CrystalClock \in Int
             /\ (a \div CrystalClock) + (b \div CrystalClock) <= (a + b) \div CrystalClock
             /\ (a + b) \div CrystalClock <= (a \div CrystalClock) + (b \div CrystalClock) + 1
  BY <1>1
<1>3. x * 10 \in Int /\ y * 10 \in Int /\ (x + y) * 10 = x * 10 + y * 10 /\ (x + y) * 10 \in Int
  OBVIOUS
<1> QED
  BY <1>2, <1>3 DEF Units

LEMMA UnitsOfZero ==
  ASSUME ClockAssumption
  PROVE  Units(0) = 0
BY DEF Units, ClockAssumption

-----------------------------------------------------------------------------
(* The stack of calls and traps.                                           *)

\* The innermost call goes on to another place, with another start.
LEMMA TopGoesOn ==
  ASSUME running \in Seq(Call), running # <<>>, NEW c \in Call,
         running' = [running EXCEPT ![Len(running)] = c]
  PROVE  /\ running' \in Seq(Call)
         /\ Len(running') = Len(running)
         /\ \A i \in 1 .. Len(running) : running'[i] = running[i] \/ running'[i] = c
OBVIOUS

LEMMA Innermost ==
  ASSUME running \in Seq(Call), running # <<>>
  PROVE  Here \in Call /\ Len(running) \in 1 .. Len(running)
BY DEF Here

\* StepTo neither makes a call that sets a period nor changes one.
LEMMA SteppedTo ==
  ASSUME ClockTypeOK, running # <<>>, NEW at \in Places, StepTo(at),
         timer.notify => at # "program" /\ at # "period",
         timer.notify => \A i \in 1 .. Len(running) : OnlyStops(running[i])
  PROVE  /\ running' \in Seq(Call)
         /\ timer.notify => \A i \in 1 .. Len(running') : OnlyStops(running'[i])
PROOF
<1> DEFINE c == [Here EXCEPT !.at = at]
<1>1. Here \in Call
  BY Innermost DEF ClockTypeOK
<1>2. c \in Call /\ c.at = at
  BY <1>1 DEF Call
<1>3. running' = [running EXCEPT ![Len(running)] = c]
  BY DEF StepTo, Here
<1> HIDE DEF c
<1> QED
  BY <1>2, <1>3, TopGoesOn DEF ClockTypeOK, OnlyStops

\* A return leaves the calls below as they are.
LEMMA ReturnedTo ==
  ASSUME ClockTypeOK, running # <<>>, Returned,
         timer.notify => \A i \in 1 .. Len(running) : OnlyStops(running[i])
  PROVE  /\ running' \in Seq(Call)
         /\ timer.notify => \A i \in 1 .. Len(running') : OnlyStops(running'[i])
PROOF
<1>1. running' = SubSeq(running, 1, Len(running) - 1)
  BY DEF Returned
<1>2. running \in Seq(Call) /\ Len(running) \in Nat /\ Len(running) # 0
  BY DEF ClockTypeOK
<1> DEFINE m == Len(running) - 1
<1>3. m \in Nat /\ m <= Len(running) /\ running' = SubSeq(running, 1, m)
  BY <1>1, <1>2
<1> HIDE DEF m
<1>4. running' \in Seq(Call) /\ Len(running') = m
      /\ \A i \in 1 .. m : running'[i] = running[i] /\ i \in 1 .. Len(running)
  BY <1>2, <1>3
<1> QED
  BY <1>4

-----------------------------------------------------------------------------
(* The actions.                                                            *)

LEMMA ClockInitInv ==
  ASSUME ClockAssumption, ClockInit
  PROVE  CInv
BY DEF ClockInit, TimerOff, CInv, ClockTypeOK, TimeAddsUp, Silent

LEMMA SetPeriodInv ==
  ASSUME ClockAssumption, CInv, phase = "dxe", phase' = phase,
         SetPeriod \/ RiscVDisableTimerInterrupt \/ RiscVProgramTimer \/ RiscVEnableTimerInterrupt
  PROVE  CInv'
PROOF
<1>1. /\ running # <<>> /\ Here \in Call /\ Len(running) \in 1 .. Len(running)
      /\ Here = running[Len(running)]
  BY Innermost DEF SetPeriod, RiscVDisableTimerInterrupt, RiscVProgramTimer,
     RiscVEnableTimerInterrupt, InStep, CInv, ClockTypeOK, Here
<1>2. timer.notify => OnlyStops(Here)
  BY <1>1 DEF CInv
<1>3. CASE SetPeriod
  <2>1. Here.duration \in Nat /\ Here.duration \div 10 \in Nat
    BY <1>1 DEF Call
  <2>2. timer.notify => Here.duration = 0
    BY <1>2, <1>3 DEF OnlyStops, SetPeriod, InStep
  <2>3. /\ timer' = [timer EXCEPT !.period = Here.duration \div 10]
        /\ timer'.notify = timer.notify /\ timer'.period = Here.duration \div 10
        /\ UNCHANGED <<mtime, hart, heard>>
    BY <1>3 DEF SetPeriod, CInv, ClockTypeOK
  <2>4. timer' \in [period : Nat, last : Int, notify : BOOLEAN]
    BY <2>1, <2>3 DEF CInv, ClockTypeOK
  <2>5. TimeAddsUp'
    BY <2>2, <2>3 DEF TimeAddsUp
  <2> DEFINE at == IF Here.duration = 0 THEN "disable" ELSE "program"
  <2>6. at \in Places /\ StepTo(at) /\ (timer.notify => at = "disable")
    BY <1>3, <2>2 DEF Places, SetPeriod
  <2> HIDE DEF at
  <2>7. running' \in Seq(Call)
        /\ (timer.notify => \A i \in 1 .. Len(running') : OnlyStops(running'[i]))
    BY <1>1, <2>6, SteppedTo DEF CInv
  <2> QED
    BY <2>3, <2>4, <2>5, <2>7 DEF CInv, ClockTypeOK
<1>4. CASE RiscVDisableTimerInterrupt \/ RiscVEnableTimerInterrupt
  <2>1. Returned /\ UNCHANGED <<mtime, timer, heard>>
        /\ hart' \in [ie : BOOLEAN, stie : BOOLEAN, compare : Int, epc : Nat]
    BY <1>4 DEF RiscVDisableTimerInterrupt, RiscVEnableTimerInterrupt, CInv, ClockTypeOK
  <2> QED
    BY <1>1, <2>1, ReturnedTo DEF CInv, ClockTypeOK, TimeAddsUp
<1>5. CASE RiscVProgramTimer
  <2>1. ~timer.notify
    BY <1>2, <1>5 DEF OnlyStops, RiscVProgramTimer, InStep
  <2>2. mtime + Ticks(timer.period) \in Int /\ mtime \in Int
    BY DEF Ticks, CInv, ClockTypeOK, ClockAssumption
  <2>3. /\ timer' = [timer EXCEPT !.last = mtime]
        /\ hart' = [hart EXCEPT !.compare = mtime + Ticks(timer.period), !.ie = TRUE]
        /\ UNCHANGED <<mtime, heard>>
    BY <1>5 DEF RiscVProgramTimer
  <2>4. timer' \in [period : Nat, last : Int, notify : BOOLEAN] /\ timer'.notify = timer.notify
    BY <2>2, <2>3 DEF CInv, ClockTypeOK
  <2>5. hart' \in [ie : BOOLEAN, stie : BOOLEAN, compare : Int, epc : Nat]
    BY <2>2, <2>3 DEF CInv, ClockTypeOK
  <2>6. running' \in Seq(Call)
    BY <1>1, <1>5, <2>1, SteppedTo DEF RiscVProgramTimer, CInv, Places
  <2> QED
    BY <2>1, <2>3, <2>4, <2>5, <2>6 DEF CInv, ClockTypeOK, TimeAddsUp
<1> QED
  BY <1>3, <1>4, <1>5

LEMMA TrapInv ==
  ASSUME ClockAssumption, CInv, phase = "dxe", phase' = phase,
         SupervisorModeTrap \/ PeriodStart
  PROVE  CInv'
PROOF
<1>1. CASE SupervisorModeTrap
  <2>1. Trapped \in Call /\ OnlyStops(Trapped) /\ Len(running) \in Nat
    BY DEF Trapped, Call, Places, OnlyStops, CInv, ClockTypeOK
  <2>2. running' \in Seq(Call) /\ Len(running') = Len(running) + 1
        /\ \A i \in 1 .. Len(running') :
             \/ running'[i] = running[i] /\ i \in 1 .. Len(running)
             \/ running'[i] = Trapped
    <3> HIDE DEF Trapped
    <3>1. running' = Append(running, Trapped) /\ running \in Seq(Call)
      BY <1>1 DEF SupervisorModeTrap, CInv, ClockTypeOK
    <3> QED
      BY <2>1, <3>1
  <2>3. /\ hart' \in [ie : BOOLEAN, stie : BOOLEAN, compare : Int, epc : Nat]
        /\ UNCHANGED <<mtime, timer, heard>>
    BY <1>1, <2>1 DEF SupervisorModeTrap, CInv, ClockTypeOK
  <2>4. timer'.notify => \A i \in 1 .. Len(running') : OnlyStops(running'[i])
    BY <2>1, <2>2, <2>3 DEF CInv
  <2> QED
    BY <2>2, <2>3, <2>4 DEF CInv, ClockTypeOK, TimeAddsUp
<1>2. CASE PeriodStart
  <2> DEFINE c == [[Here EXCEPT !.start = mtime] EXCEPT !.at = "raised"]
  <2>1. running # <<>> /\ running \in Seq(Call) /\ Here \in Call
    BY <1>2, Innermost DEF PeriodStart, InStep, CInv, ClockTypeOK
  <2>2. c \in Call /\ OnlyStops(c)
    BY <2>1 DEF Call, Places, OnlyStops, CInv, ClockTypeOK
  <2>3. running' = [running EXCEPT ![Len(running)] = c]
    BY <1>2, <2>1 DEF PeriodStart, Here
  <2> HIDE DEF c
  <2>4. running' \in Seq(Call) /\ Len(running') = Len(running)
        /\ \A i \in 1 .. Len(running) : running'[i] = running[i] \/ running'[i] = c
    BY <2>1, <2>2, <2>3, TopGoesOn
  <2>5. UNCHANGED <<mtime, timer, hart, heard>>
    BY <1>2 DEF PeriodStart
  <2> QED
    BY <2>2, <2>4, <2>5 DEF CInv, ClockTypeOK, TimeAddsUp
<1> QED
  BY <1>1, <1>2

\* The handler: the span it tells begins where the last one told has ended.
LEMMA HandlerInv ==
  ASSUME ClockAssumption, CInv, phase = "dxe", phase' = phase, TimerInterruptHandler
  PROVE  CInv'
PROOF
<1>1. running # <<>> /\ Here \in Call /\ Here.start \in Nat
  BY Innermost DEF TimerInterruptHandler, InStep, CInv, ClockTypeOK, Call
<1>2. StepTo("told") /\ mtime' = mtime
  BY DEF TimerInterruptHandler
<1>3. running' \in Seq(Call)
      /\ (timer.notify => \A i \in 1 .. Len(running') : OnlyStops(running'[i]))
  BY <1>1, <1>2, SteppedTo DEF CInv, Places
<1>4. CASE timer.period = 0
  <2>1. /\ UNCHANGED <<mtime, timer, heard>>
        /\ hart' \in [ie : BOOLEAN, stie : BOOLEAN, compare : Int, epc : Nat]
    BY <1>4 DEF TimerInterruptHandler, CInv, ClockTypeOK
  <2> QED
    BY <1>3, <2>1 DEF CInv, ClockTypeOK, TimeAddsUp
<1>5. CASE timer.period # 0
  <2>1. /\ timer' = [timer EXCEPT !.last = Here.start]
        /\ hart' = [hart EXCEPT !.compare = Here.start + Ticks(timer.period), !.stie = TRUE]
        /\ heard' = IF timer.notify
                    THEN [heard EXCEPT !.units = @ + Units(Here.start - timer.last), !.times = @ + 1]
                    ELSE heard
    BY <1>5 DEF TimerInterruptHandler, NextPeriod
  <2>2. /\ timer' \in [period : Nat, last : Int, notify : BOOLEAN]
        /\ timer'.last = Here.start /\ timer'.notify = timer.notify /\ timer'.period = timer.period
    BY <1>1, <2>1, SMTT(30) DEF CInv, ClockTypeOK
  <2>3. Here.start + Ticks(timer.period) \in Int
    <3>1. CrystalClock \in Nat \ {0} /\ timer.period \in Nat /\ Here.start \in Int
      BY <1>1 DEF CInv, ClockTypeOK, ClockAssumption, Call
    <3>2. timer.period * CrystalClock \in Int
      BY <3>1
    <3> QED
      BY <3>1, <3>2 DEF Ticks
  <2>4. hart' \in [ie : BOOLEAN, stie : BOOLEAN, compare : Int, epc : Nat]
    BY <2>1, <2>3 DEF CInv, ClockTypeOK
  <2>5. /\ heard.since \in Int /\ heard.units \in Int /\ heard.times \in Nat /\ timer.last \in Int
        /\ heard \in [since : Int, units : Int, times : Nat]
    BY DEF CInv, ClockTypeOK
  <2> DEFINE before == timer.last - heard.since
             span   == Here.start - timer.last
  <2>6. before \in Int /\ span \in Int /\ before + span = Here.start - heard.since
    BY <1>1, <2>5, SMTT(30)
  <2>7. /\ Units(before) \in Int /\ Units(span) \in Int /\ Units(before + span) \in Int
        /\ Units(before) + Units(span) <= Units(before + span)
        /\ Units(before + span) <= Units(before) + Units(span) + 1
    <3> HIDE DEF before, span
    <3> QED
      BY <2>6, UnitsOfSum
  <2>8. CASE timer.notify
    <3>1. /\ heard'.units = heard.units + Units(span) /\ heard'.times = heard.times + 1
          /\ heard'.since = heard.since
          /\ heard' \in [since : Int, units : Int, times : Nat]
      <4> DEFINE u == heard.units + Units(span)
                 t == heard.times + 1
      <4>1. heard' = [[heard EXCEPT !.units = u] EXCEPT !.times = t]
        BY <2>1, <2>8
      <4>2. u \in Int /\ t \in Nat
        BY <2>5, <2>7
      <4> HIDE DEF u, t
      <4>3. heard' \in [since : Int, units : Int, times : Nat]
            /\ heard'.units = u /\ heard'.times = t /\ heard'.since = heard.since
        BY <2>5, <4>1, <4>2
      <4> QED
        BY <4>3 DEF u, t
    <3>2. heard.units <= Units(before) /\ Units(before) <= heard.units + heard.times
      BY <1>5, <2>8 DEF CInv, TimeAddsUp
    <3>3. /\ heard'.units <= Units(before + span)
          /\ Units(before + span) <= heard'.units + heard'.times
      <4> HIDE DEF before, span
      <4> QED
        BY <2>5, <2>7, <3>1, <3>2
    <3>4. timer'.last - heard'.since = before + span
      BY <2>2, <2>6, <3>1
    <3>5. TimeAddsUp'
      BY <3>3, <3>4 DEF TimeAddsUp, Units
    <3> QED
      BY <1>2, <1>3, <2>2, <2>4, <3>1, <3>5 DEF CInv, ClockTypeOK
  <2>9. CASE ~timer.notify
    BY <1>2, <1>3, <2>1, <2>2, <2>4, <2>9 DEF CInv, ClockTypeOK, TimeAddsUp
  <2> QED
    BY <2>8, <2>9
<1> QED
  BY <1>4, <1>5

LEMMA LeaveInv ==
  ASSUME ClockAssumption, CInv, phase = "dxe", phase' = phase,
         RestoreTPL \/ RestoreRegisters \/ Sret
  PROVE  CInv'
PROOF
<1>1. running # <<>> /\ Here \in Call
  BY Innermost DEF RestoreTPL, RestoreRegisters, Sret, InStep, CInv, ClockTypeOK
<1>2. UNCHANGED <<mtime, timer, heard>>
  BY DEF RestoreTPL, RestoreRegisters, Sret
<1>3. hart' \in [ie : BOOLEAN, stie : BOOLEAN, compare : Int, epc : Nat]
  BY <1>1 DEF RestoreTPL, RestoreRegisters, Sret, CInv, ClockTypeOK, Call
<1>4. running' \in Seq(Call)
      /\ (timer.notify => \A i \in 1 .. Len(running') : OnlyStops(running'[i]))
  BY <1>1, SteppedTo, ReturnedTo DEF RestoreTPL, RestoreRegisters, Sret, CInv, Places
<1> QED
  BY <1>2, <1>3, <1>4 DEF CInv, ClockTypeOK, TimeAddsUp

LEMMA CoreInv ==
  ASSUME ClockAssumption, CInv, phase = "dxe", phase' = phase,
         TimerDriverRegisterHandler \/ DxeMasks \/ ExitBootServices \/ ClockTicks
  PROVE  CInv'
PROOF
<1>1. CASE TimerDriverRegisterHandler
  <2>1. /\ running = <<>> /\ UNCHANGED <<mtime, hart, running>>
        /\ timer' = [timer EXCEPT !.notify = TRUE]
        /\ heard' = [since |-> timer.last, units |-> 0, times |-> 0]
    BY <1>1 DEF TimerDriverRegisterHandler, Silent
  <2>2. timer.last \in Int
    BY DEF CInv, ClockTypeOK
  <2>3. /\ timer' \in [period : Nat, last : Int, notify : BOOLEAN]
        /\ timer'.last = timer.last
    BY <2>1 DEF CInv, ClockTypeOK
  <2>4. /\ heard' \in [since : Int, units : Int, times : Nat]
        /\ heard'.since = timer.last /\ heard'.units = 0 /\ heard'.times = 0
    BY <2>1, <2>2
  <2>5. timer'.last - heard'.since = 0
    BY <2>2, <2>3, <2>4
  <2>6. TimeAddsUp'
    BY <2>4, <2>5, UnitsOfZero DEF TimeAddsUp, Units
  <2> QED
    BY <2>1, <2>3, <2>4, <2>6 DEF CInv, ClockTypeOK
<1>2. CASE DxeMasks
  BY <1>2 DEF DxeMasks, CInv, ClockTypeOK, TimeAddsUp
<1>3. CASE ExitBootServices
  <2>1. Setting(0) \in Call /\ OnlyStops(Setting(0))
    BY DEF Setting, Call, Places, OnlyStops
  <2>2. running' = <<Setting(0)>> /\ UNCHANGED <<mtime, timer, hart, heard>>
    BY <1>3 DEF ExitBootServices
  <2>3. running' \in Seq(Call) /\ \A i \in 1 .. Len(running') : running'[i] = Setting(0)
    <3> HIDE DEF Setting
    <3> QED
      BY <2>1, <2>2
  <2> QED
    BY <2>1, <2>2, <2>3 DEF CInv, ClockTypeOK, TimeAddsUp
<1>4. CASE ClockTicks
  BY <1>4 DEF ClockTicks, CInv, ClockTypeOK, TimeAddsUp
<1> QED
  BY <1>1, <1>2, <1>3, <1>4

\* In PEI the timer is off and nobody has registered, so that the driver may
\* set its first period.
LEMMA DxeStartsInv ==
  ASSUME ClockAssumption, CInv, DxeStarts
  PROVE  CInv'
PROOF
<1>1. ~timer.notify /\ UNCHANGED <<mtime, timer, hart, heard>> /\ phase' = "dxe"
  BY DEF DxeStarts, TimerDriverInitialize, CInv
<1>2. running' = <<Setting(DefaultTickDuration)>>
  BY DEF DxeStarts, TimerDriverInitialize
<1>3. Setting(DefaultTickDuration) \in Call
  BY DEF Setting, Call, Places, ClockAssumption
<1>4. running' \in Seq(Call)
  <2> HIDE DEF Setting
  <2> QED
    BY <1>2, <1>3
<1> QED
  BY <1>1, <1>4 DEF CInv, ClockTypeOK, TimeAddsUp

\* PEI does not begin DXE by itself.
LEMMA PhaseStays ==
  ASSUME Next, phase # "dxe"
  PROVE  phase' # "dxe"
BY DEF Next, Ppi, Core, PeiDelayedDispatchRegister, PeiDelayedDispatchWaitOnEvent, DispatcherCycle,
   PeiDelayedDispatchOnEndOfPei, EndOfPeiLoop, CycleReturns, CycleStarts, CompletionTimeout,
   ForEnds, NotExpired, Expired, FunctionDone, FunctionAgain, Delete, Rearm, Tick, Over, vars

LEMMA ClockNextInv ==
  ASSUME ClockAssumption, CInv, [ClockNext]_clockVars
  PROVE  CInv'
PROOF
<1>1. CASE UNCHANGED clockVars
  BY <1>1 DEF clockVars, vars, timerVars, CInv, ClockTypeOK, TimeAddsUp
<1>2. CASE phase # "dxe" /\ Next /\ UNCHANGED timerVars
  BY <1>2, PhaseStays DEF timerVars, CInv, ClockTypeOK, TimeAddsUp
<1>3. CASE DxeStarts
  BY <1>3, DxeStartsInv
<1>4. CASE phase = "dxe" /\ TimerNext /\ UNCHANGED vars
  <2>1. phase = "dxe" /\ phase' = phase
    BY <1>4 DEF vars
  <2> QED
    BY <1>4, <2>1, SetPeriodInv, TrapInv, HandlerInv, LeaveInv, CoreInv DEF TimerNext
<1> QED
  BY <1>1, <1>2, <1>3, <1>4 DEF ClockNext

\* The time the DXE core is told adds up to the time since it registered, but
\* for less than 100 ns a tick: for any clock, any period, whenever interrupts
\* are taken and however deep they nest.
THEOREM TimeAlwaysAddsUp == ClockSpec => []TimeAddsUp
PROOF
<1>1. ClockInit => CInv
  BY ClockAssumption, ClockInitInv
<1>2. CInv /\ [ClockNext]_clockVars => CInv'
  BY ClockAssumption, ClockNextInv
<1>3. CInv => TimeAddsUp
  BY DEF CInv
<1> QED
  BY <1>1, <1>2, <1>3, PTL DEF ClockSpec

-----------------------------------------------------------------------------
(* The delayed functions, from reset to the end of DXE.                    *)

\* Until DXE begins what was shown above; when PEI has ended no
\* call is in progress, and none begins.
TableInv ==
  /\ phase # "dxe" => IInv
  /\ phase \in {"ended", "dxe"} => stack = <<>>

LEMMA EndedStays ==
  ASSUME Next, phase # "dxe", phase = "ended" => stack = <<>>
  PROVE  phase' = "ended" => stack' = <<>>
PROOF
<1>1. CASE phase = "ended"
  BY <1>1 DEF Next, Ppi, Core, PeiDelayedDispatchRegister, PeiDelayedDispatchWaitOnEvent, MayUsePpi,
     DispatcherCycle, PeiDelayedDispatchOnEndOfPei, EndOfPeiLoop, CycleReturns, CycleStarts,
     CompletionTimeout, ForEnds, NotExpired, Expired, FunctionDone, FunctionAgain, At, Tick, Over, vars
<1>2. CASE phase # "ended"
  BY <1>2 DEF Next, Ppi, Core, PeiDelayedDispatchRegister, PeiDelayedDispatchWaitOnEvent,
     DispatcherCycle, PeiDelayedDispatchOnEndOfPei, EndOfPeiLoop, CycleReturns, CycleStarts,
     CompletionTimeout, ForEnds, NotExpired, Expired, FunctionDone, FunctionAgain, Delete, Rearm,
     Tick, Over, vars
<1> QED
  BY <1>1, <1>2

LEMMA TableNext ==
  ASSUME TableAssumption, TableInv, [ClockNext]_clockVars
  PROVE  TableInv'
PROOF
<1>1. CASE UNCHANGED clockVars
  <2>1. [Next]_vars /\ UNCHANGED <<phase, stack>>
    BY <1>1 DEF clockVars, vars
  <2> QED
    BY <2>1, NextInv DEF TableInv
<1>2. CASE phase # "dxe" /\ Next
  BY <1>2, NextInv, PhaseStays, EndedStays DEF TableInv
<1>3. CASE DxeStarts
  BY <1>3 DEF DxeStarts, TableInv
<1>4. CASE phase = "dxe" /\ UNCHANGED vars
  BY <1>4 DEF TableInv, vars
<1> QED
  BY <1>1, <1>2, <1>3, <1>4 DEF ClockNext, clockVars

\* The pointer held over the call of a delayed function stays with its entry,
\* and no cycle skips an entry, for calls nested to any depth until a nested
\* cycle deletes the entry at or before the pointer; also with DXE after PEI.
THEOREM TableHolds == ClockSpec => [](EntryStays /\ NobodySkipped)
PROOF
<1>1. ClockInit => TableInv
  <2>1. ASSUME Init PROVE IInv
    BY <2>1, TableAssumption, InitInv
  <2>2. Init => stack = <<>>
    BY DEF Init
  <2> QED
    BY <2>1, <2>2 DEF ClockInit, TableInv
<1>2. TableInv /\ [ClockNext]_clockVars => TableInv'
  BY TableAssumption, TableNext
<1>3. TableInv => EntryStays /\ NobodySkipped
  <2>1. ASSUME TableInv, phase # "dxe" PROVE EntryStays /\ NobodySkipped
    BY <2>1, TableAssumption, EntryKept, SeenWhenEnded DEF TableInv
  <2>2. ASSUME TableInv, phase = "dxe" PROVE EntryStays /\ NobodySkipped
    BY <2>2 DEF TableInv, EntryStays, NobodySkipped
  <2> QED
    BY <2>1, <2>2
<1> QED
  BY <1>1, <1>2, <1>3, PTL DEF ClockSpec
=============================================================================
