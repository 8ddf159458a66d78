-------------------------- MODULE WheelScroll_proofs --------------------------
(***************************************************************************)
(* Proved for every size of the wheel and every adapter, set at any moment *)
(* with or without an item: the wheel turns by what the finger moved; left *)
(* alone, it comes to rest at an item, unless by a cancelled gesture; the  *)
(* current item is the nearest one; and centring keeps it, but for a stale *)
(* Y or an offset reset under the animation.                               *)
(***************************************************************************)
EXTENDS WheelScroll, TLAPS

(* A wheel that does not scroll has nothing left to animate: neither an     *)
(* offset nor a Y not yet applied.                                          *)
AtRest ==
    ~isScrollingPerformed =>
        scrollingOffset = 0 /\ finished /\ scrollerY = lastScrollY

(* Scrolling ends with a message, but for ACTION_CANCEL.                    *)
RInv ==
    /\ touch = "up" /\ message = "none" => ~isScrollingPerformed
    /\ AtRest

(* Under the finger no message waits and the Scroller stands still.         *)
Held == touch = "down" => message = "none" /\ finished

-----------------------------------------------------------------------------
(* Rounding towards zero keeps integers (the / of doScroll).                *)
LEMMA QuotientIsInteger ==
    ASSUME NEW a \in Int, NEW b \in Nat \ {0}
    PROVE  Quotient(a, b) \in Int
<1>1. Abs(a) \in Nat
  BY DEF Abs
<1>2. Abs(a) \div b \in Int
  BY <1>1
<1>3. Sign(a) \in {-1, 0, 1}
  BY DEF Sign
<1> QED
  BY <1>2, <1>3 DEF Quotient

(* The rest fits with it (the % of doScroll).                               *)
LEMMA RemainderIsInteger ==
    ASSUME NEW a \in Int, NEW b \in Nat \ {0}
    PROVE  Remainder(a, b) \in Int
<1> DEFINE q == Quotient(a, b)
<1>1. q \in Int
  BY QuotientIsInteger
<1>2. b * q \in Int
  BY <1>1
<1> QED
  BY <1>2 DEF Remainder

(* The half-passed item counts for one at most (fixPos of doScroll).        *)
LEMMA FixIsUnit ==
    ASSUME NEW offset \in Int
    PROVE  Fix(offset) \in {-1, 0, 1}
BY DEF Fix, Sign

(* doScroll stops at an item number, having passed a whole number of items. *)
LEMMA RolledIsSound ==
    ASSUME TypeOK, NEW offset \in Int
    PROVE  Rolled(offset).pos \in Nat /\ Rolled(offset).count \in Int
<1> DEFINE passed == Quotient(offset, ItemHeight)
           fix    == Fix(offset)
           pos    == currentItem - passed
<1>1. passed \in Int
  BY QuotientIsInteger, ConstantsAssumption
<1>2. fix \in Int
  BY FixIsUnit
<1>3. currentItem \in Nat /\ itemCount \in Nat \ {0} /\ isCyclic \in BOOLEAN
  BY ConstantsAssumption DEF TypeOK
<1>4. (pos - fix) % itemCount \in Nat
  BY <1>1, <1>2, <1>3
<1> HIDE DEF passed, fix
<1>5. CASE isCyclic
  <2>1. Rolled(offset) = [pos |-> (pos - fix) % itemCount,
                          count |-> passed + fix]
    BY <1>5 DEF Rolled, passed, fix
  <2> QED
    BY <2>1, <1>1, <1>2, <1>4
<1>6. CASE ~isCyclic /\ pos < 0
  <2>1. Rolled(offset) = [pos |-> 0, count |-> currentItem]
    BY <1>6, <1>1, <1>3 DEF Rolled, passed, fix
  <2> QED
    BY <2>1, <1>3
<1>7. CASE ~isCyclic /\ pos >= itemCount
  <2>1. Rolled(offset) = [pos |-> itemCount - 1,
                          count |-> currentItem - itemCount + 1]
    BY <1>7, <1>1, <1>3 DEF Rolled, passed, fix
  <2> QED
    BY <2>1, <1>3
<1>8. CASE ~isCyclic /\ pos \in 0 .. itemCount - 1
  <2>1. \/ Rolled(offset) = [pos |-> pos, count |-> passed]
        \/ /\ Rolled(offset) = [pos |-> pos - fix, count |-> passed + fix]
           /\ pos - fix \in 0 .. itemCount - 1
    BY <1>8, <1>1, <1>2, <1>3 DEF Rolled, passed, fix
  <2> QED
    BY <2>1, <1>1, <1>2, <1>3, <1>8
<1> QED
  BY <1>5, <1>6, <1>7, <1>8, <1>1, <1>3

(* What is left of an offset is an integer, and is cut to the height.       *)
LEMMA LeftIsInteger ==
    ASSUME NEW offset \in Int, NEW count \in Int
    PROVE  Left(offset, count) \in Int
<1>1. ItemHeight \in Nat \ {0} /\ Height \in Nat \ {0}
  BY ConstantsAssumption
<1>2. offset - count * ItemHeight \in Int
  BY <1>1
<1>3. Remainder(offset - count * ItemHeight, Height) \in Int
  BY <1>1, <1>2, RemainderIsInteger
<1> QED
  BY <1>1, <1>2, <1>3 DEF Left

(* onScroll cuts an offset to the view's height, above and below.           *)
LEMMA CutToHeight ==
    ASSUME NEW left \in Int
    PROVE  Clamped(left) \in -Height .. Height
BY ConstantsAssumption DEF Clamped

(* A drag or an animation leaves a position of the right type.              *)
LEMMA ScrolledIsSound ==
    ASSUME TypeOK, NEW delta \in Int
    PROVE  /\ Scrolled(delta).item \in Nat
           /\ Scrolled(delta).offset \in -Height .. Height
           /\ Scrolled(delta).stop \in BOOLEAN
<1>1. scrollingOffset + delta \in Int /\ currentItem \in Nat
      /\ scrollingOffset \in -Height .. Height
  BY ConstantsAssumption DEF TypeOK
<1>2. /\ Rolled(scrollingOffset + delta).pos \in Nat
      /\ Rolled(scrollingOffset + delta).count \in Int
  BY <1>1, RolledIsSound
<1>3. Left(scrollingOffset + delta, Rolled(scrollingOffset + delta).count) \in Int
  BY <1>1, <1>2, LeftIsInteger
<1>4. Clamped(Left(scrollingOffset + delta,
                   Rolled(scrollingOffset + delta).count)) \in -Height .. Height
  BY <1>3, CutToHeight
<1>5. CASE delta = 0
  BY <1>1, <1>5 DEF Scrolled
<1>6. CASE delta # 0
  BY <1>2, <1>4, <1>6 DEF Scrolled
<1> QED
  BY <1>5, <1>6

-----------------------------------------------------------------------------
(* What an animation step applies is a whole number of pixels.              *)
LEMMA CurrYIsInteger ==
    ASSUME TypeOK, NEW y \in CurrY
    PROVE  y \in Int
<1>1. lastScrollY \in Int /\ scrollerY \in Int /\ finalY \in Int
  BY DEF TypeOK
<1>2. CASE finished
  BY <1>1, <1>2 DEF CurrY
<1>3. CASE ~finished
  BY <1>1, <1>3 DEF CurrY
<1> QED
  BY <1>2, <1>3

(* Justifying sets the scroller's integers and leaves a message.            *)
LEMMA JustifyIsSound ==
    ASSUME TypeOK, NEW offset \in Int, NEW last \in Int, Justify(offset, last)
    PROVE  /\ message' = "JUSTIFY"
           /\ isScrollingPerformed' \in BOOLEAN
           /\ lastScrollY' \in Int /\ finalY' \in Int /\ finished' \in BOOLEAN
<1>1. lastScrollY' \in {0, last} /\ finalY' \in {offset, finalY}
  BY DEF Justify, StartScroll
<1>2. /\ message' = "JUSTIFY"
      /\ isScrollingPerformed' \in BOOLEAN
      /\ finished' \in BOOLEAN
  BY Zenon DEF TypeOK, Justify, StartScroll
<1>3. finalY \in Int
  BY DEF TypeOK
<1> QED
  BY <1>1, <1>2, <1>3

(* The wheel begins with every variable of its type ...                     *)
LEMMA InitType == Init => TypeOK
<1> SUFFICES ASSUME Init PROVE TypeOK
  OBVIOUS
<1>1. /\ isCyclic \in BOOLEAN /\ isScrollingPerformed \in BOOLEAN
      /\ finished \in BOOLEAN /\ message \in {"none", "SCROLL", "JUSTIFY"}
      /\ touch \in {"up", "down"} /\ itemCount \in Counts
  BY DEF Init
<1>2. /\ currentItem \in Nat /\ scrollingOffset \in -Height .. Height
      /\ lastScrollY \in Int /\ scrollerY \in Int /\ finalY \in Int
  BY ConstantsAssumption DEF Init
<1> QED
  BY <1>1, <1>2 DEF TypeOK

(* ... and every step of touch, looper or activity keeps the types.         *)
LEMMA NextType == TypeOK /\ [Next]_vars => TypeOK'
<1> SUFFICES ASSUME TypeOK, [Next]_vars PROVE TypeOK'
  OBVIOUS
<1> USE ConstantsAssumption
<1>1. ASSUME TouchDown PROVE TypeOK'
  BY <1>1 DEF TouchDown, TypeOK, position, adapter
<1>2. ASSUME NEW d \in Moves, TouchMove(d) PROVE TypeOK'
  <2>1. d \in Int
    OBVIOUS
  <2>2. currentItem' \in Nat /\ scrollingOffset' \in -Height .. Height
    BY <1>2, <2>1, ScrolledIsSound DEF TouchMove
  <2> QED
    BY <1>2, <2>2 DEF TouchMove, TypeOK, adapter, scroller
<1>3. ASSUME TouchUp PROVE TypeOK'
  <2>1. scrollingOffset \in Int /\ lastScrollY \in Int
    BY DEF TypeOK
  <2>2. /\ message' = "JUSTIFY"
        /\ isScrollingPerformed' \in BOOLEAN
        /\ lastScrollY' \in Int /\ finalY' \in Int /\ finished' \in BOOLEAN
    BY <1>3, <2>1, JustifyIsSound DEF TouchUp
  <2> QED
    BY <1>3, <2>2 DEF TouchUp, TypeOK, position, adapter
<1>4. ASSUME NEW d \in Flings, Fling(d) PROVE TypeOK'
  <2>1. /\ touch' \in {"up", "down"} /\ finished' \in BOOLEAN
        /\ message' \in {"none", "SCROLL", "JUSTIFY"}
        /\ UNCHANGED <<position, adapter, isScrollingPerformed, scrollerY>>
    BY <1>4 DEF Fling, StartScroll
  <2>2. lastScrollY' \in Int /\ finalY' \in Int
    BY <1>4 DEF Fling, StartScroll
  <2> QED
    BY <2>1, <2>2 DEF TypeOK, position, adapter
<1>5. ASSUME TouchCancel PROVE TypeOK'
  BY <1>5 DEF TouchCancel, TypeOK, position, adapter, scroller
<1>6. ASSUME HandleMessage PROVE TypeOK'
  <2>1. PICK y \in CurrY :
          /\ scrollerY' = y
          /\ currentItem' = Scrolled(lastScrollY - y).item
          /\ \/ /\ ~(finished \/ Scrolled(lastScrollY - y).stop \/ y = finalY)
                /\ scrollingOffset' = Scrolled(lastScrollY - y).offset
                /\ lastScrollY' = y
                /\ UNCHANGED <<message, isScrollingPerformed, finalY, finished>>
             \/ /\ scrollingOffset' = Scrolled(lastScrollY - y).offset
                /\ Justify(Scrolled(lastScrollY - y).offset, y)
             \/ /\ FinishScrolling(Scrolled(lastScrollY - y).offset)
                /\ lastScrollY' = y
                /\ finished' = TRUE
                /\ UNCHANGED finalY
    BY <1>6 DEF HandleMessage
  <2>2. y \in Int
    BY <2>1, CurrYIsInteger
  <2>3. lastScrollY - y \in Int
    BY <2>2 DEF TypeOK
  <2>4. /\ Scrolled(lastScrollY - y).item \in Nat
        /\ Scrolled(lastScrollY - y).offset \in -Height .. Height
    BY <2>3, ScrolledIsSound
  <2>5. UNCHANGED <<adapter, touch>>
    BY <1>6 DEF HandleMessage
  <2>6. CASE /\ scrollingOffset' = Scrolled(lastScrollY - y).offset
             /\ lastScrollY' = y
             /\ UNCHANGED <<message, isScrollingPerformed, finalY, finished>>
    BY <2>1, <2>2, <2>4, <2>5, <2>6 DEF TypeOK, adapter
  <2>7. CASE /\ scrollingOffset' = Scrolled(lastScrollY - y).offset
             /\ Justify(Scrolled(lastScrollY - y).offset, y)
    <3>1. /\ message' = "JUSTIFY"
          /\ isScrollingPerformed' \in BOOLEAN
          /\ lastScrollY' \in Int /\ finalY' \in Int /\ finished' \in BOOLEAN
      BY <2>2, <2>4, <2>7, JustifyIsSound
    <3> QED
      BY <2>1, <2>2, <2>4, <2>5, <2>7, <3>1 DEF TypeOK, adapter
  <2>8. CASE /\ FinishScrolling(Scrolled(lastScrollY - y).offset)
             /\ lastScrollY' = y
             /\ finished' = TRUE
             /\ UNCHANGED finalY
    <3>1. /\ message' = "none" /\ isScrollingPerformed' = FALSE
          /\ scrollingOffset' \in {0, Scrolled(lastScrollY - y).offset}
      BY <2>8 DEF FinishScrolling
    <3>2. /\ isScrollingPerformed' \in BOOLEAN
          /\ finished' \in BOOLEAN
          /\ message' \in {"none", "SCROLL", "JUSTIFY"}
      BY <2>8, <3>1
    <3>3. /\ scrollingOffset' \in -Height .. Height
          /\ lastScrollY' \in Int /\ finalY' \in Int
      BY <2>2, <2>4, <2>8, <3>1 DEF TypeOK
    <3> QED
      BY <2>1, <2>2, <2>4, <2>5, <3>2, <3>3 DEF TypeOK, adapter
  <2> QED
    BY <2>1, <2>6, <2>7, <2>8
<1>7. ASSUME NEW count \in Counts, NEW index \in -1 .. count - 1,
             SetViewAdapter(count, index)
      PROVE  TypeOK'
  <2>1. count \in Nat \ {0} /\ currentItem \in Nat
    BY DEF TypeOK
  <2>2. currentItem' \in Nat
    <3>1. currentItem' \in {currentItem, index, count - 1}
      BY <1>7 DEF SetViewAdapter, SetCurrentItem
    <3>2. currentItem' = index => index >= 0 \/ currentItem' \in Nat
      BY <1>7, <2>1 DEF SetViewAdapter, SetCurrentItem
    <3> QED
      BY <2>1, <3>1, <3>2
  <2> QED
    BY <1>7, <2>2 DEF SetViewAdapter, TypeOK, scroller
<1>8. ASSUME UNCHANGED vars PROVE TypeOK'
  BY <1>8 DEF vars, position, adapter, scroller, TypeOK
<1> HIDE DEF TypeOK
<1> QED
  BY <1>1, <1>2, <1>3, <1>4, <1>5, <1>6, <1>7, <1>8 DEF Next, Touch

(* The wheel's variables keep their types, and its offset never leaves the  *)
(* view: TypeOK for every size and every gesture.                           *)
THEOREM OffsetWithinView == Spec => []TypeOK
BY InitType, NextType, PTL DEF Spec

-----------------------------------------------------------------------------
(* What a message does, case by case.                                       *)
LEMMA MessageCases ==
    ASSUME HandleMessage
    PROVE  \E y \in CurrY :
             LET scrolled == Scrolled(lastScrollY - y)
             IN /\ scrollerY' = y
                /\ currentItem' = scrolled.item
                /\ \/ /\ ~finished
                      /\ scrollingOffset' = scrolled.offset
                      /\ lastScrollY' = y
                      /\ UNCHANGED <<message, isScrollingPerformed, finalY,
                                    finished>>
                   \/ /\ message = "SCROLL"
                      /\ scrollingOffset' = scrolled.offset
                      /\ Justify(scrolled.offset, y)
                   \/ /\ message = "JUSTIFY"
                      /\ FinishScrolling(scrolled.offset)
                      /\ lastScrollY' = y
                      /\ finished' = TRUE
                      /\ UNCHANGED finalY
BY DEF HandleMessage

(* Every step keeps AtRest: a drag marks the wheel as scrolling, and only   *)
(* the last message unmarks it.                                             *)
LEMMA NextAtRest == TypeOK /\ AtRest /\ [Next]_vars => AtRest'
<1> SUFFICES ASSUME TypeOK, AtRest, [Next]_vars PROVE AtRest'
  OBVIOUS
<1>1. ASSUME TouchDown PROVE AtRest'
  BY <1>1 DEF TouchDown, AtRest, position, adapter
<1>2. ASSUME NEW d \in Moves, TouchMove(d) PROVE AtRest'
  BY <1>2 DEF TouchMove, AtRest
<1>3. ASSUME TouchUp PROVE AtRest'
  BY <1>3 DEF TouchUp, Justify, AtRest, position, Abs, MIN_DELTA_FOR_SCROLLING
<1>4. ASSUME NEW d \in Flings, Fling(d) PROVE AtRest'
  BY <1>4 DEF Fling, AtRest
<1>5. ASSUME TouchCancel PROVE AtRest'
  BY <1>5 DEF TouchCancel, AtRest, position, adapter, scroller
<1>6. ASSUME HandleMessage PROVE AtRest'
  <2> DEFINE scrolled(y) == Scrolled(lastScrollY - y)
  <2>1. PICK y \in CurrY :
          /\ scrollerY' = y
          /\ \/ /\ scrollingOffset' = scrolled(y).offset
                /\ lastScrollY' = y
                /\ UNCHANGED <<isScrollingPerformed, finished>>
             \/ /\ scrollingOffset' = scrolled(y).offset
                /\ Justify(scrolled(y).offset, y)
             \/ /\ FinishScrolling(scrolled(y).offset)
                /\ lastScrollY' = y
                /\ finished' = TRUE
    BY <1>6, MessageCases
  <2>2. y \in Int /\ lastScrollY \in Int
    BY <2>1, CurrYIsInteger DEF TypeOK
  <2>3. ~isScrollingPerformed => finished /\ scrolled(y).offset = 0
    <3> SUFFICES ASSUME ~isScrollingPerformed
                 PROVE  finished /\ scrolled(y).offset = 0
      OBVIOUS
    <3>1. finished /\ y = lastScrollY /\ scrollingOffset = 0
      BY DEF AtRest, CurrY
    <3>2. lastScrollY - y = 0
      BY <2>2, <3>1
    <3> QED
      BY <3>1, <3>2 DEF Scrolled
  <2> HIDE DEF scrolled
  <2>4. CASE /\ scrollingOffset' = scrolled(y).offset
             /\ lastScrollY' = y
             /\ UNCHANGED <<isScrollingPerformed, finished>>
    BY <2>1, <2>3, <2>4 DEF AtRest
  <2>5. CASE /\ scrollingOffset' = scrolled(y).offset
             /\ Justify(scrolled(y).offset, y)
    BY <2>1, <2>3, <2>5
    DEF AtRest, Justify, Abs, MIN_DELTA_FOR_SCROLLING
  <2>6. CASE /\ FinishScrolling(scrolled(y).offset)
             /\ lastScrollY' = y
             /\ finished' = TRUE
    BY <2>1, <2>3, <2>6 DEF AtRest, FinishScrolling
  <2> QED
    BY <2>1, <2>4, <2>5, <2>6
<1>7. ASSUME NEW count \in Counts, NEW index \in -1 .. count - 1,
             SetViewAdapter(count, index)
      PROVE  AtRest'
  BY <1>7 DEF SetViewAdapter, AtRest, scroller
<1>8. ASSUME UNCHANGED vars PROVE AtRest'
  BY <1>8 DEF vars, position, adapter, scroller, AtRest
<1> HIDE DEF AtRest
<1> QED
  BY <1>1, <1>2, <1>3, <1>4, <1>5, <1>6, <1>7, <1>8 DEF Next, Touch

(* A wheel begins at rest.                                                  *)
LEMMA InitRest == Init => RInv
BY DEF Init, RInv, AtRest

(* Every step keeps RInv: a release leaves a message, and only the last     *)
(* message goes without leaving one.                                        *)
LEMMA NextRest == TypeOK /\ RInv /\ [Next]_vars => RInv'
<1> DEFINE Ends == touch = "up" /\ message = "none" => ~isScrollingPerformed
<1> SUFFICES ASSUME TypeOK, RInv, [Next]_vars PROVE Ends' /\ AtRest'
  BY DEF RInv
<1>1. AtRest'
  BY NextAtRest DEF RInv
<1>2. ASSUME TouchDown PROVE Ends'
  BY <1>2 DEF TouchDown
<1>3. ASSUME NEW d \in Moves, TouchMove(d) PROVE Ends'
  BY <1>3 DEF TouchMove
<1>4. ASSUME TouchUp PROVE Ends'
  BY <1>4 DEF TouchUp, Justify
<1>5. ASSUME NEW d \in Flings, Fling(d) PROVE Ends'
  BY <1>5 DEF Fling
<1>6. ASSUME TouchCancel PROVE Ends'
  BY <1>6 DEF TouchCancel
<1>7. ASSUME HandleMessage PROVE Ends'
  <2>1. message # "none"
    BY <1>7 DEF HandleMessage
  <2>2. PICK y \in CurrY :
          \/ UNCHANGED message
          \/ Justify(Scrolled(lastScrollY - y).offset, y)
          \/ FinishScrolling(Scrolled(lastScrollY - y).offset)
    BY <1>7, MessageCases
  <2> QED
    BY <2>1, <2>2 DEF Justify, FinishScrolling
<1>8. ASSUME NEW count \in Counts, NEW index \in -1 .. count - 1,
             SetViewAdapter(count, index)
      PROVE  Ends'
  BY <1>8 DEF SetViewAdapter, RInv
<1>9. ASSUME UNCHANGED vars PROVE Ends'
  BY <1>9 DEF vars, RInv
<1> HIDE DEF Ends
<1> QED
  BY <1>1, <1>2, <1>3, <1>4, <1>5, <1>6, <1>7, <1>8, <1>9 DEF Next, Touch

(* Unless its last gesture was cancelled, a wheel with no finger on it and  *)
(* no message pending is centred on its item and ready to follow a status,  *)
(* adapters set in the middle of an animation included.                     *)
THEOREM WheelRestsCentred == Spec => []RestIsCentred
<1>1. TypeOK /\ RInv => RestIsCentred
  BY DEF RInv, AtRest, RestIsCentred
<1>2. TypeOK /\ RInv /\ [Next]_vars => RInv'
  BY NextRest
<1> QED
  BY InitType, NextType, InitRest, <1>1, <1>2, PTL DEF Spec

-----------------------------------------------------------------------------
(* Division of naturals with a rest.                                        *)
LEMMA NaturalDivision ==
    ASSUME NEW n \in Nat, NEW b \in Nat \ {0}
    PROVE  /\ n \div b \in Nat /\ n % b \in 0 .. b - 1
           /\ n = b * (n \div b) + (n % b)
<1>1. n \div b \in Nat
  OBVIOUS
<1>2. n % b \in 0 .. b - 1
  OBVIOUS
<1>3. n = b * (n \div b) + (n % b)
  OBVIOUS
<1> QED
  BY <1>1, <1>2, <1>3

(* The rest is smaller than the divisor, with the sign of the dividend.     *)
LEMMA RoundsTowardsZero ==
    ASSUME NEW a \in Int, NEW b \in Nat \ {0}
    PROVE  /\ Quotient(a, b) \in Int /\ Remainder(a, b) \in Int
           /\ a = b * Quotient(a, b) + Remainder(a, b)
           /\ Abs(Remainder(a, b)) < b
           /\ a >= 0 => Quotient(a, b) >= 0 /\ Remainder(a, b) >= 0
           /\ a <= 0 => Quotient(a, b) <= 0 /\ Remainder(a, b) <= 0
<1> DEFINE n == Abs(a)  d == n \div b
<1>1. n \in Nat
  BY DEF Abs
<1>2. /\ d \in Nat /\ n = b * d + (n % b) /\ n % b \in 0 .. b - 1
  BY <1>1, NaturalDivision
<1>3. CASE a > 0
  <2>1. n = a /\ Quotient(a, b) = d
    BY <1>2, <1>3 DEF Abs, Sign, Quotient
  <2>2. Remainder(a, b) = n % b
    BY <1>2, <2>1 DEF Remainder
  <2> QED
    BY <1>2, <1>3, <2>1, <2>2 DEF Abs
<1>4. CASE a < 0
  <2>1. n = -a /\ Quotient(a, b) = -d
    BY <1>2, <1>4 DEF Abs, Sign, Quotient
  <2>2. Remainder(a, b) = -(n % b)
    BY <1>2, <2>1 DEF Remainder
  <2> QED
    BY <1>2, <1>4, <2>1, <2>2 DEF Abs
<1>5. CASE a = 0
  <2>1. Quotient(a, b) = 0
    BY <1>2, <1>5 DEF Sign, Quotient
  <2>2. Remainder(a, b) = 0
    BY <1>5, <2>1 DEF Remainder
  <2> QED
    BY <1>5, <2>1, <2>2 DEF Abs
<1> QED
  BY <1>3, <1>4, <1>5

(* Rounding to the nearest item leaves half an item at most; if it rounds,  *)
(* it rounds the way the wheel has moved.                                   *)
LEMMA FixIsNearest ==
    ASSUME NEW offset \in Int
    PROVE  LET rest == Remainder(offset, ItemHeight)
           IN /\ Abs(rest - ItemHeight * Fix(offset)) <= ItemHeight \div 2
              /\ Fix(offset) = 1 => rest > 0
              /\ Fix(offset) = -1 => rest < 0
<1> DEFINE rest == Remainder(offset, ItemHeight)  half == ItemHeight \div 2
<1>1. /\ ItemHeight \in Nat \ {0} /\ rest \in Int
      /\ Abs(rest) < ItemHeight
  BY RoundsTowardsZero, ConstantsAssumption
<1>2. half \in Nat /\ ItemHeight <= 2 * half + 1
  BY <1>1
<1> HIDE DEF rest, half
<1>3. Fix(offset) = IF Abs(rest) <= half THEN 0 ELSE Sign(rest)
  BY DEF Fix, rest, half
<1>4. CASE Fix(offset) = 0
  <2>1. Abs(rest) <= half
    BY <1>1, <1>2, <1>3, <1>4 DEF Abs, Sign
  <2> QED
    BY <1>1, <1>4, <2>1 DEF rest, half
<1>5. CASE Fix(offset) = 1
  <2>1. rest > half /\ Abs(rest - ItemHeight) <= half
    BY <1>1, <1>2, <1>3, <1>5 DEF Abs, Sign
  <2> QED
    BY <1>1, <1>2, <1>5, <2>1 DEF rest, half
<1>6. CASE Fix(offset) = -1
  <2>1. rest < -half /\ Abs(rest + ItemHeight) <= half
    BY <1>1, <1>2, <1>3, <1>6 DEF Abs, Sign
  <2> QED
    BY <1>1, <1>2, <1>6, <2>1 DEF rest, half
<1> QED
  BY <1>4, <1>5, <1>6, FixIsUnit

(* Whether an item at an offset is the one nearest the centre.              *)
Nearest(item, offset) ==
    /\ item \in 0 .. itemCount - 1
    /\ \/ Abs(offset) <= ItemHeight \div 2
       \/ ~isCyclic /\ item = 0 /\ offset > 0
       \/ ~isCyclic /\ item = itemCount - 1 /\ offset < 0

(* What is left of an offset when doScroll has passed its items.            *)
RestOf(offset) == offset - Rolled(offset).count * ItemHeight

(* doScroll stops at the item nearest the centre, and its count and its     *)
(* item agree, but for whole turns of a cyclic wheel.                       *)
LEMMA RolledIsNearest ==
    ASSUME TypeOK, NEW offset \in Int
    PROVE  /\ Nearest(Rolled(offset).pos, RestOf(offset))
           /\ RestOf(offset) \in Int
           /\ \/ Rolled(offset).pos = currentItem - Rolled(offset).count
              \/ /\ isCyclic
                 /\ Rolled(offset).pos
                        = (currentItem - Rolled(offset).count) % itemCount
<1> DEFINE passed == Quotient(offset, ItemHeight)
           rest   == Remainder(offset, ItemHeight)
           fix    == Fix(offset)
           pos    == currentItem - passed
           half   == ItemHeight \div 2
<1>1. /\ ItemHeight \in Nat \ {0} /\ currentItem \in Nat
      /\ itemCount \in Nat \ {0} /\ isCyclic \in BOOLEAN
      /\ half \in Nat
  BY ConstantsAssumption DEF TypeOK
<1>2. /\ passed \in Int /\ rest \in Int /\ pos \in Int
      /\ offset = ItemHeight * passed + rest
      /\ Abs(rest) < ItemHeight
      /\ offset >= 0 => passed >= 0 /\ rest >= 0
      /\ offset <= 0 => passed <= 0 /\ rest <= 0
  <2>1. /\ passed \in Int /\ rest \in Int
        /\ offset = ItemHeight * passed + rest
        /\ Abs(rest) < ItemHeight
        /\ offset >= 0 => passed >= 0 /\ rest >= 0
        /\ offset <= 0 => passed <= 0 /\ rest <= 0
    BY <1>1, RoundsTowardsZero, Zenon
  <2> HIDE DEF passed, rest
  <2> QED
    BY <1>1, <2>1
<1>3. /\ fix \in {-1, 0, 1}
      /\ Abs(rest - ItemHeight * fix) <= half
      /\ fix = 1 => rest > 0
      /\ fix = -1 => rest < 0
  BY FixIsUnit, FixIsNearest
<1> HIDE DEF passed, rest, fix, half
<1>4. ASSUME NEW count \in Int
      PROVE  /\ offset - count * ItemHeight \in Int
             /\ offset - count * ItemHeight
                    = ItemHeight * (passed - count) + rest
  BY <1>1, <1>2
<1>5. CASE isCyclic
  <2>1. Rolled(offset) = [pos |-> (pos - fix) % itemCount,
                          count |-> passed + fix]
    BY <1>5 DEF Rolled, passed, fix
  <2>2. passed + fix \in Int /\ pos - fix = currentItem - (passed + fix)
    BY <1>1, <1>2, <1>3
  <2>3. RestOf(offset) = rest - ItemHeight * fix
    BY <1>1, <1>2, <1>3, <1>4, <2>1, <2>2 DEF RestOf
  <2>4. (pos - fix) % itemCount \in 0 .. itemCount - 1
    BY <1>1, <1>2, <1>3
  <2> QED
    BY <1>1, <1>2, <1>3, <1>5, <2>1, <2>2, <2>3, <2>4 DEF Nearest, half
<1>6. CASE ~isCyclic /\ pos < 0
  <2>1. Rolled(offset) = [pos |-> 0, count |-> currentItem]
    BY <1>6, <1>1, <1>2 DEF Rolled, passed, fix
  <2>2. RestOf(offset) = ItemHeight * (passed - currentItem) + rest
    BY <1>1, <1>4, <2>1 DEF RestOf
  <2>3. passed - currentItem > 0 /\ rest >= 0
    BY <1>1, <1>2, <1>6
  <2>4. RestOf(offset) > 0
    BY <1>1, <1>2, <2>2, <2>3
  <2> QED
    BY <1>1, <1>2, <1>6, <2>1, <2>2, <2>4 DEF Nearest
<1>7. CASE ~isCyclic /\ pos >= itemCount
  <2>1. Rolled(offset) = [pos |-> itemCount - 1,
                          count |-> currentItem - itemCount + 1]
    BY <1>7, <1>1, <1>2 DEF Rolled, passed, fix
  <2>2. RestOf(offset)
            = ItemHeight * (passed - (currentItem - itemCount + 1)) + rest
    BY <1>1, <1>4, <2>1 DEF RestOf
  <2>3. /\ passed - (currentItem - itemCount + 1) <= -1
        /\ rest < ItemHeight
    BY <1>1, <1>2, <1>7 DEF Abs
  <2>4. RestOf(offset) < 0
    BY <1>1, <1>2, <2>2, <2>3
  <2> QED
    BY <1>1, <1>2, <1>7, <2>1, <2>2, <2>4 DEF Nearest
<1>8. CASE ~isCyclic /\ pos \in 0 .. itemCount - 1
  <2>1. CASE pos - fix \in 0 .. itemCount - 1
    <3>1. Rolled(offset) = [pos |-> pos - fix, count |-> passed + fix]
      BY <1>8, <1>1, <1>2, <1>3, <2>1 DEF Rolled, passed, fix
    <3>2. RestOf(offset) = rest - ItemHeight * fix
      BY <1>1, <1>2, <1>3, <1>4, <3>1 DEF RestOf
    <3> QED
      BY <1>1, <1>2, <1>3, <1>8, <2>1, <3>1, <3>2 DEF Nearest, half
  <2>2. CASE pos - fix \notin 0 .. itemCount - 1
    <3>1. Rolled(offset) = [pos |-> pos, count |-> passed]
      BY <1>8, <1>1, <1>2, <1>3, <2>2 DEF Rolled, passed, fix
    <3>2. RestOf(offset) = rest
      BY <1>1, <1>2, <1>4, <3>1 DEF RestOf
    <3>3. \/ fix = 1 /\ pos = 0
          \/ fix = -1 /\ pos = itemCount - 1
      BY <1>1, <1>2, <1>3, <1>8, <2>2
    <3> QED
      BY <1>1, <1>2, <1>3, <1>8, <3>1, <3>2, <3>3 DEF Nearest
  <2> QED
    BY <2>1, <2>2
<1> QED
  BY <1>5, <1>6, <1>7, <1>8, <1>1, <1>2

(* The wrap of a large offset and the cut to the height are one cut.        *)
LEMMA WrapIsCut ==
    ASSUME NEW offset \in Int, NEW count \in Int
    PROVE  Clamped(Left(offset, count)) = Clamped(offset - count * ItemHeight)
<1> DEFINE rest == offset - count * ItemHeight
<1>1. /\ ItemHeight \in Nat \ {0} /\ Height \in Nat \ {0}
  BY ConstantsAssumption
<1>2. rest \in Int
  BY <1>1
<1>3. Left(offset, count) =
            IF rest > Height THEN Remainder(rest, Height) + Height ELSE rest
  BY DEF Left
<1> HIDE DEF rest
<1>4. CASE rest > Height
  <2>1. Remainder(rest, Height) \in Int /\ Remainder(rest, Height) >= 0
    BY <1>1, <1>2, <1>4, RoundsTowardsZero
  <2> QED
    BY <1>1, <1>2, <1>3, <1>4, <2>1 DEF Clamped, rest
<1>5. CASE ~(rest > Height)
  BY <1>3, <1>5 DEF rest
<1> QED
  BY <1>4, <1>5

(* Cutting to the height leaves the nearest item nearest.                   *)
LEMMA CutKeepsNearest ==
    ASSUME NEW item, NEW rest \in Int, Nearest(item, rest)
    PROVE  Nearest(item, Clamped(rest))
<1> DEFINE half == ItemHeight \div 2
<1>1. ItemHeight \in Nat \ {0} /\ Height \in Nat /\ Height >= ItemHeight
  BY ConstantsAssumption
<1>2. half \in Nat /\ half <= ItemHeight
  BY <1>1
<1> HIDE DEF half
<1>3. Abs(rest) <= half => Clamped(rest) = rest
  BY <1>1, <1>2 DEF Clamped, Abs
<1>4. rest > 0 => Clamped(rest) > 0
  BY <1>1 DEF Clamped
<1>5. rest < 0 => Clamped(rest) < 0
  BY <1>1 DEF Clamped
<1> QED
  BY <1>3, <1>4, <1>5 DEF Nearest, half

(* The position a drag or an animation step comes to.                       *)
LEMMA ScrolledIsCut ==
    ASSUME TypeOK, NEW delta \in Int, delta # 0
    PROVE  /\ Scrolled(delta).item = Rolled(scrollingOffset + delta).pos
           /\ Scrolled(delta).offset
                  = Clamped(RestOf(scrollingOffset + delta))
<1>1. scrollingOffset + delta \in Int
  BY ConstantsAssumption DEF TypeOK
<1>2. Rolled(scrollingOffset + delta).count \in Int
  BY <1>1, RolledIsSound
<1>3. Clamped(Left(scrollingOffset + delta,
                   Rolled(scrollingOffset + delta).count))
        = Clamped(RestOf(scrollingOffset + delta))
  BY <1>1, <1>2, WrapIsCut DEF RestOf
<1> QED
  BY <1>3 DEF Scrolled

(* Nearest, or the item of a list that is gone with nothing scrolled since. *)
Near(item, offset) ==
    /\ \/ Abs(offset) <= ItemHeight \div 2
       \/ ~isCyclic /\ item = 0 /\ offset > 0
       \/ ~isCyclic /\ item = itemCount - 1 /\ offset < 0
    /\ item >= itemCount => offset = 0

(* Moving a wheel brings it back into its list.                             *)
LEMMA NearestIsNear ==
    ASSUME TypeOK, NEW item, NEW offset, Nearest(item, offset)
    PROVE  Near(item, offset)
<1>1. itemCount \in Nat
  BY ConstantsAssumption DEF TypeOK
<1>2. ~(item >= itemCount)
  BY <1>1 DEF Nearest
<1> QED
  BY <1>2 DEF Nearest, Near

(* At an offset of 0 any item is near.                                      *)
LEMMA CentredIsNear ==
    ASSUME NEW item
    PROVE  Near(item, 0)
<1>1. Abs(0) <= ItemHeight \div 2
  BY ConstantsAssumption DEF Abs
<1> QED
  BY <1>1 DEF Near

(* A drag or an animation step leaves the wheel at the nearest item.        *)
LEMMA ScrolledIsNear ==
    ASSUME TypeOK, NearestItem, NEW delta \in Int
    PROVE  Near(Scrolled(delta).item, Scrolled(delta).offset)
<1>1. CASE delta = 0
  BY <1>1 DEF Scrolled, NearestItem, Near
<1>2. CASE delta # 0
  <2>1. scrollingOffset + delta \in Int
    BY ConstantsAssumption DEF TypeOK
  <2>2. Nearest(Scrolled(delta).item, Scrolled(delta).offset)
    BY <1>2, <2>1, RolledIsNearest, CutKeepsNearest, ScrolledIsCut
  <2> QED
    BY <2>2, NearestIsNear
<1> QED
  BY <1>1, <1>2

(* Every step keeps the current item the nearest: a new adapter takes the   *)
(* offset away, and any move finds its item again.                          *)
LEMMA NextNearest == TypeOK /\ NearestItem /\ [Next]_vars => NearestItem'
<1> SUFFICES ASSUME TypeOK, NearestItem, [Next]_vars PROVE NearestItem'
  OBVIOUS
<1>1. ASSUME NEW item, NEW offset, Near(item, offset),
             currentItem' = item, scrollingOffset' = offset, UNCHANGED adapter
      PROVE  NearestItem'
  BY <1>1 DEF Near, NearestItem, adapter
<1>2. ASSUME UNCHANGED <<position, adapter>> PROVE NearestItem'
  BY <1>2 DEF NearestItem, position, adapter
<1>3. ASSUME NEW d \in Moves, TouchMove(d) PROVE NearestItem'
  <2>1. d \in Int
    BY ConstantsAssumption
  <2> QED
    BY <1>1, <1>3, <2>1, ScrolledIsNear DEF TouchMove
<1>4. ASSUME HandleMessage PROVE NearestItem'
  <2> DEFINE scrolled(y) == Scrolled(lastScrollY - y)
  <2>1. PICK y \in CurrY :
          /\ currentItem' = scrolled(y).item
          /\ scrollingOffset' \in {0, scrolled(y).offset}
    BY <1>4, MessageCases DEF FinishScrolling
  <2>2. UNCHANGED adapter
    BY <1>4 DEF HandleMessage
  <2>3. lastScrollY - y \in Int
    BY <2>1, CurrYIsInteger DEF TypeOK
  <2>4. Near(scrolled(y).item, scrolled(y).offset)
    BY <2>3, ScrolledIsNear
  <2> HIDE DEF scrolled
  <2>5. Near(scrolled(y).item, 0)
    BY CentredIsNear
  <2> QED
    BY <1>1, <2>1, <2>2, <2>4, <2>5
<1>5. ASSUME NEW count \in Counts, NEW index \in -1 .. count - 1,
             SetViewAdapter(count, index)
      PROVE  NearestItem'
  <2>1. scrollingOffset' = 0
    BY <1>5 DEF SetViewAdapter
  <2>2. Abs(0) <= ItemHeight \div 2
    BY ConstantsAssumption DEF Abs
  <2> QED
    BY <2>1, <2>2 DEF NearestItem
<1>6. TouchDown \/ TouchUp \/ (\E d \in Flings : Fling(d)) \/ TouchCancel
        => UNCHANGED <<position, adapter>>
  BY DEF TouchDown, TouchUp, Fling, TouchCancel, position, adapter
<1>7. UNCHANGED vars => UNCHANGED <<position, adapter>>
  BY DEF vars, position, adapter
<1> HIDE DEF NearestItem
<1> QED
  BY <1>2, <1>3, <1>4, <1>5, <1>6, <1>7 DEF Next, Touch

(* Whatever the drags, flings, animations and adapters, set at any moment   *)
(* and with or without an item of theirs, the current item is the nearest   *)
(* one, and a wheel whose item its list does not have is centred: so        *)
(* NearestItem for every size.                                              *)
THEOREM CurrentItemIsNearest == Spec => []NearestItem
<1>1. Init => NearestItem
  <2> SUFFICES ASSUME Init PROVE NearestItem
    OBVIOUS
  <2>1. Abs(0) <= ItemHeight \div 2
    BY ConstantsAssumption DEF Abs
  <2> QED
    BY <2>1 DEF Init, NearestItem
<1>2. TypeOK /\ NearestItem /\ [Next]_vars => NearestItem'
  BY NextNearest
<1> QED
  BY InitType, NextType, <1>1, <1>2, PTL DEF Spec

-----------------------------------------------------------------------------
(* A whole number of turns leaves no rest.                                  *)
LEMMA WholeTurns ==
    ASSUME NEW m \in Nat \ {0}, NEW k \in Int
    PROVE  (m * k) % m = 0
<1> DEFINE q == (m * k) \div m  r == (m * k) % m
<1>1. m * k \in Int
  OBVIOUS
<1>2. q \in Int /\ r \in 0 .. m - 1 /\ m * k = m * q + r
  BY <1>1
<1> HIDE DEF q, r
<1>3. r = m * (k - q)
  BY <1>2
<1>4. CASE k - q <= -1
  BY <1>2, <1>3, <1>4
<1>5. CASE k - q >= 1
  BY <1>2, <1>3, <1>5
<1>6. CASE k - q = 0
  BY <1>2, <1>3, <1>6 DEF r
<1> QED
  BY <1>2, <1>4, <1>5, <1>6

(* A drag moves the wheel's pixels by as much, up to whole turns and to the *)
(* height of the view.                                                      *)
LEMMA DragFollows ==
    ASSUME TypeOK, NEW d \in Moves, TouchMove(d)
    PROVE  \/ Pixels' = Pixels - d
           \/ isCyclic /\ (Pixels' - Pixels + d) % (itemCount * ItemHeight) = 0
           \/ Abs(scrollingOffset') = Height
<1> DEFINE offset == scrollingOffset + d
           count  == Rolled(offset).count
           pos    == Rolled(offset).pos
           rest   == RestOf(offset)
<1>1. /\ ItemHeight \in Nat \ {0} /\ Height \in Nat
      /\ scrollingOffset \in Int /\ currentItem \in Int
      /\ itemCount \in Nat \ {0} /\ isCyclic \in BOOLEAN
      /\ d \in Int /\ d # 0
  BY ConstantsAssumption DEF TypeOK
<1>2. offset \in Int
  BY <1>1
<1>3. count \in Int /\ pos \in Int
  BY <1>2, RolledIsSound
<1>4. /\ rest \in Int /\ rest = offset - count * ItemHeight
      /\ \/ pos = currentItem - count
         \/ isCyclic /\ pos = (currentItem - count) % itemCount
  BY <1>2, RolledIsNearest DEF RestOf
<1>5. currentItem' = pos /\ scrollingOffset' = Clamped(rest)
  BY <1>1, ScrolledIsCut DEF TouchMove
<1>6. offset = scrollingOffset + d
  OBVIOUS
<1> HIDE DEF offset, count, pos, rest
<1>7. \/ scrollingOffset' = rest
      \/ Abs(scrollingOffset') = Height
  BY <1>1, <1>4, <1>5 DEF Clamped, Abs
<1>8. ASSUME scrollingOffset' = rest
      PROVE  Pixels' - Pixels + d
                = ItemHeight * (pos - (currentItem - count))
  <2>1. /\ Pixels' = pos * ItemHeight - rest
        /\ Pixels = currentItem * ItemHeight - scrollingOffset
    BY <1>5, <1>8 DEF Pixels
  <2> QED
    BY <1>1, <1>3, <1>4, <1>6, <2>1
<1>9. ASSUME scrollingOffset' = rest
      PROVE  Pixels' \in Int /\ Pixels \in Int
  BY <1>1, <1>3, <1>4, <1>5, <1>9 DEF Pixels
<1>10. CASE scrollingOffset' = rest /\ pos = currentItem - count
  BY <1>1, <1>3, <1>8, <1>9, <1>10
<1>11. CASE /\ scrollingOffset' = rest
            /\ isCyclic /\ pos = (currentItem - count) % itemCount
  <2> DEFINE turns == (currentItem - count) \div itemCount
             m     == itemCount * ItemHeight
  <2>1. /\ turns \in Int
        /\ currentItem - count = itemCount * turns + pos
    BY <1>1, <1>3, <1>11
  <2>2. m \in Nat \ {0}
    BY <1>1
  <2> HIDE DEF turns
  <2>3. Pixels' - Pixels + d = m * (-turns)
    <3>1. pos - (currentItem - count) = itemCount * (-turns)
      BY <1>1, <1>3, <2>1
    <3>2. ItemHeight * (itemCount * (-turns)) = m * (-turns)
      BY <1>1, <2>1
    <3> QED
      BY <1>8, <1>11, <3>1, <3>2
  <2> HIDE DEF m
  <2>4. (m * (-turns)) % m = 0
    BY <2>1, <2>2, WholeTurns
  <2> QED
    BY <1>11, <2>3, <2>4 DEF m
<1> QED
  BY <1>4, <1>7, <1>10, <1>11

(* The wheel follows the finger to the pixel, for every size, item count    *)
(* and length of a move, whatever is passed and rounded on the way.         *)
THEOREM WheelFollowsFinger == Spec => FollowsFinger
<1> DEFINE Follows ==
        \A d \in Moves : TouchMove(d) =>
            \/ Pixels' = Pixels - d
            \/ isCyclic /\ (Pixels' - Pixels + d) % (itemCount * ItemHeight) = 0
            \/ Abs(scrollingOffset') = Height
<1>1. TypeOK => Follows
  BY DragFollows
<1>2. TypeOK => [Follows]_vars
  BY <1>1
<1> QED
  BY OffsetWithinView, <1>2, PTL DEF FollowsFinger

-----------------------------------------------------------------------------
(* Moving towards a centred item, never past it, the wheel stays at the     *)
(* item and comes as far as it was moved.                                   *)
LEMMA CentringStays ==
    ASSUME TypeOK, NearestItem, NEW delta \in Int, delta # 0,
           \/ 0 <= scrollingOffset + delta
              /\ scrollingOffset + delta <= scrollingOffset
           \/ scrollingOffset <= scrollingOffset + delta
              /\ scrollingOffset + delta <= 0
    PROVE  /\ Scrolled(delta).item = currentItem
           /\ Scrolled(delta).offset = scrollingOffset + delta
<1> DEFINE offset == scrollingOffset + delta
           passed == Quotient(offset, ItemHeight)
           rest   == Remainder(offset, ItemHeight)
           half   == ItemHeight \div 2
<1>1. /\ ItemHeight \in Nat \ {0} /\ Height \in Nat /\ Height >= ItemHeight
      /\ scrollingOffset \in Int /\ scrollingOffset \in -Height .. Height
      /\ currentItem \in 0 .. itemCount - 1
      /\ itemCount \in Nat \ {0} /\ isCyclic \in BOOLEAN
  <2>1. scrollingOffset # 0
    BY ConstantsAssumption DEF TypeOK
  <2> QED
    BY <2>1, ConstantsAssumption DEF TypeOK, NearestItem
<1>2. half \in Nat /\ half < ItemHeight
  BY <1>1
<1>3. /\ \/ Abs(scrollingOffset) <= half
         \/ ~isCyclic /\ currentItem = 0 /\ scrollingOffset > 0
         \/ ~isCyclic /\ currentItem = itemCount - 1 /\ scrollingOffset < 0
  BY DEF NearestItem
<1>4. offset \in Int /\ offset = scrollingOffset + delta
  BY <1>1
<1>5. /\ passed \in Int /\ rest \in Int
      /\ offset = ItemHeight * passed + rest
      /\ Abs(rest) < ItemHeight
      /\ offset >= 0 => passed >= 0 /\ rest >= 0
      /\ offset <= 0 => passed <= 0 /\ rest <= 0
  BY <1>1, <1>4, RoundsTowardsZero
<1>6. Fix(offset) = IF Abs(rest) <= half THEN 0 ELSE Sign(rest)
  BY DEF Fix
<1> HIDE DEF offset, passed, rest, half
<1>7. Rolled(offset) = [pos |-> currentItem, count |-> 0]
  <2>1. CASE Abs(scrollingOffset) <= half
    <3>1. Abs(offset) <= half
      BY <1>1, <1>2, <1>4, <2>1 DEF Abs
    <3>2. passed = 0
      <4>1. CASE passed >= 1
        BY <1>1, <1>2, <1>4, <1>5, <3>1, <4>1 DEF Abs
      <4>2. CASE passed <= -1
        BY <1>1, <1>2, <1>4, <1>5, <3>1, <4>2 DEF Abs
      <4> QED
        BY <1>5, <4>1, <4>2
    <3>3. rest = offset
      BY <1>1, <1>4, <1>5, <3>2
    <3>4. Fix(offset) = 0
      BY <1>6, <3>1, <3>3
    <3>5. (currentItem - 0) % itemCount = currentItem
      BY <1>1
    <3>6. /\ currentItem - passed = currentItem
          /\ (currentItem - passed) - Fix(offset) = currentItem
          /\ passed + Fix(offset) = 0
          /\ ~(currentItem < 0) /\ ~(currentItem >= itemCount)
      BY <1>1, <3>2, <3>4
    <3>7. currentItem % itemCount = currentItem
      BY <1>1
    <3> QED
      BY <1>1, <3>6, <3>7 DEF Rolled, passed
  <2>2. CASE /\ ~isCyclic /\ currentItem = 0 /\ scrollingOffset > 0
             /\ ~(Abs(scrollingOffset) <= half)
    <3>1. /\ offset >= 0 /\ passed >= 0 /\ rest >= 0
          /\ Fix(offset) \in {0, 1}
      BY <1>1, <1>2, <1>4, <1>5, <1>6, <2>2 DEF Abs, Sign
    <3>2. CASE passed > 0
      <4>1. 0 - passed < 0
        BY <1>5, <3>2
      <4> QED
        BY <2>2, <4>1 DEF Rolled, passed
    <3>3. CASE passed = 0 /\ Fix(offset) = 0
      <4>1. 0 - passed = 0 /\ (0 - passed) - Fix(offset) = 0
            /\ passed + Fix(offset) = 0
        BY <3>3
      <4> QED
        BY <1>1, <2>2, <4>1 DEF Rolled, passed
    <3>4. CASE passed = 0 /\ Fix(offset) = 1
      <4>1. 0 - passed = 0 /\ (0 - passed) - Fix(offset) = -1
        BY <3>4
      <4>2. -1 \notin 0 .. itemCount - 1
        OBVIOUS
      <4> QED
        BY <1>1, <2>2, <3>4, <4>1, <4>2 DEF Rolled, passed
    <3> QED
      BY <1>5, <3>1, <3>2, <3>3, <3>4
  <2>3. CASE /\ ~isCyclic /\ currentItem = itemCount - 1
             /\ scrollingOffset < 0 /\ ~(Abs(scrollingOffset) <= half)
    <3>1. /\ offset <= 0 /\ passed <= 0 /\ rest <= 0
          /\ Fix(offset) \in {0, -1}
      BY <1>1, <1>2, <1>4, <1>5, <1>6, <2>3 DEF Abs, Sign
    <3>2. CASE passed < 0
      <4>1. /\ currentItem - passed >= itemCount /\ ~(currentItem - passed < 0)
            /\ currentItem - itemCount + 1 = 0
        BY <1>1, <1>5, <2>3, <3>2
      <4> QED
        BY <2>3, <4>1 DEF Rolled, passed
    <3>3. CASE passed = 0 /\ Fix(offset) = 0
      <4>1. /\ currentItem - passed = currentItem
            /\ currentItem - Fix(offset) = currentItem
            /\ passed + Fix(offset) = 0
            /\ ~(currentItem < 0) /\ ~(currentItem >= itemCount)
        BY <1>1, <3>3
      <4> QED
        BY <1>1, <2>3, <4>1 DEF Rolled, passed
    <3>4. CASE passed = 0 /\ Fix(offset) = -1
      <4>1. /\ currentItem - passed = currentItem
            /\ currentItem - Fix(offset) \notin 0 .. itemCount - 1
            /\ ~(currentItem < 0) /\ ~(currentItem >= itemCount)
        BY <1>1, <2>3, <3>4
      <4> QED
        BY <1>1, <2>3, <3>4, <4>1 DEF Rolled, passed
    <3> QED
      BY <1>5, <3>1, <3>2, <3>3, <3>4
  <2> QED
    BY <1>3, <2>1, <2>2, <2>3
<1>8. RestOf(offset) = offset
  BY <1>1, <1>4, <1>7 DEF RestOf
<1>9. Clamped(offset) = offset
  BY <1>1, <1>4 DEF Clamped
<1> QED
  BY <1>4, <1>7, <1>8, <1>9, ScrolledIsCut

(* What the Scroller's Y tells of the way still to go.                      *)
LEMMA CentringAdvances ==
    ASSUME TypeOK, NearestItem, message = "JUSTIFY", ~finished, ~Shifted,
           NEW y \in CurrY
    PROVE  /\ Scrolled(lastScrollY - y).item = currentItem
           /\ Scrolled(lastScrollY - y).offset = finalY - y
<1>1. /\ lastScrollY \in Int /\ finalY \in Int
      /\ y \in lastScrollY .. finalY \/ y \in finalY .. lastScrollY
  BY DEF TypeOK, CurrY
<1>2. y \in Int /\ lastScrollY - y \in Int
  BY <1>1
<1>3. scrollingOffset = finalY - lastScrollY
  BY DEF Shifted
<1>4. scrollingOffset + (lastScrollY - y) = finalY - y
  BY <1>1, <1>2, <1>3
<1>5. \/ 0 <= finalY - y /\ finalY - y <= scrollingOffset
      \/ scrollingOffset <= finalY - y /\ finalY - y <= 0
  BY <1>1, <1>2, <1>3
<1>6. CASE lastScrollY - y = 0
  <2>1. scrollingOffset = finalY - y
    BY <1>1, <1>2, <1>3, <1>6
  <2> QED
    BY <1>6, <2>1 DEF Scrolled
<1>7. CASE lastScrollY - y # 0
  BY <1>2, <1>4, <1>5, <1>7, CentringStays
<1> QED
  BY <1>6, <1>7

(* Every step keeps Held: touching removes the message and stops the        *)
(* Scroller, and only lifting the finger starts either again.               *)
LEMMA NextHeld == Held /\ [Next]_vars => Held'
<1> SUFFICES ASSUME Held, [Next]_vars PROVE Held'
  OBVIOUS
<1>1. ASSUME TouchDown PROVE Held'
  BY <1>1 DEF TouchDown, Held
<1>2. ASSUME NEW d \in Moves, TouchMove(d) PROVE Held'
  BY <1>2 DEF TouchMove, Held, scroller
<1>3. ASSUME TouchUp PROVE Held'
  BY <1>3 DEF TouchUp, Held
<1>4. ASSUME NEW d \in Flings, Fling(d) PROVE Held'
  BY <1>4 DEF Fling, Held
<1>5. ASSUME TouchCancel PROVE Held'
  BY <1>5 DEF TouchCancel, Held
<1>6. ASSUME HandleMessage PROVE Held'
  <2>1. message # "none" /\ touch' = touch
    BY <1>6 DEF HandleMessage
  <2> QED
    BY <2>1 DEF Held
<1>7. ASSUME NEW count \in Counts, NEW index \in -1 .. count - 1,
             SetViewAdapter(count, index)
      PROVE  Held'
  BY <1>7 DEF SetViewAdapter, Held, scroller
<1>8. ASSUME UNCHANGED vars PROVE Held'
  BY <1>8 DEF vars, scroller, Held
<1> HIDE DEF Held
<1> QED
  BY <1>1, <1>2, <1>3, <1>4, <1>5, <1>6, <1>7, <1>8 DEF Next, Touch

(* A Y is left to go stale by a touch only, and the way to go comes apart   *)
(* from the offset by a new adapter only.                                   *)
OnlyTouch == Stale' => Stale \/ TouchDown
OnlyAdapter ==
    Shifted' => \/ Shifted
                \/ \E count \in Counts : \E index \in -1 .. count - 1 :
                      SetViewAdapter(count, index)

(* Starting to centre sets the way to go to the offset, from a Y of 0.      *)
LEMMA JustifyIsNotShifted ==
    ASSUME NEW offset \in Int, NEW last, Justify(offset, last),
           scrollingOffset' = offset
    PROVE  /\ ~Shifted'
           /\ finished' => lastScrollY' = last
<1>1. CASE Abs(offset) > MIN_DELTA_FOR_SCROLLING
  <2>1. lastScrollY' = 0 /\ finalY' = offset /\ ~finished'
    BY <1>1 DEF Justify, StartScroll
  <2>2. scrollingOffset' = finalY' - lastScrollY'
    BY <2>1
  <2> QED
    BY <2>1, <2>2 DEF Shifted
<1>2. CASE ~(Abs(offset) > MIN_DELTA_FOR_SCROLLING)
  BY <1>2 DEF Justify, Shifted
<1> QED
  BY <1>1, <1>2

(* Every step but a touch and a new adapter leaves neither case anew.       *)
LEMMA NextApart ==
    TypeOK /\ NearestItem /\ Held /\ [Next]_vars => OnlyTouch /\ OnlyAdapter
<1> SUFFICES ASSUME TypeOK, NearestItem, Held, [Next]_vars
             PROVE  OnlyTouch /\ OnlyAdapter
  OBVIOUS
<1>1. ASSUME TouchDown PROVE OnlyTouch /\ OnlyAdapter
  BY <1>1 DEF OnlyTouch, OnlyAdapter, Shifted, TouchDown
<1>2. ASSUME NEW d \in Moves, TouchMove(d) PROVE OnlyTouch /\ OnlyAdapter
  BY <1>2 DEF OnlyTouch, OnlyAdapter, Shifted, Stale, Held, TouchMove, scroller
<1>3. ASSUME TouchUp PROVE OnlyTouch /\ OnlyAdapter
  <2>1. /\ scrollingOffset \in Int /\ scrollingOffset' = scrollingOffset
        /\ scrollerY' = scrollerY /\ finished
        /\ Justify(scrollingOffset, lastScrollY)
    BY <1>3, ConstantsAssumption DEF TouchUp, TypeOK, position, Held
  <2>2. ~Shifted' /\ (finished' => lastScrollY' = lastScrollY)
    BY <2>1, JustifyIsNotShifted
  <2> QED
    BY <2>1, <2>2 DEF OnlyTouch, OnlyAdapter, Stale
<1>4. ASSUME NEW d \in Flings, Fling(d) PROVE OnlyTouch /\ OnlyAdapter
  BY <1>4 DEF OnlyTouch, OnlyAdapter, Shifted, Stale, Fling, StartScroll
<1>5. ASSUME TouchCancel PROVE OnlyTouch /\ OnlyAdapter
  BY <1>5 DEF OnlyTouch, OnlyAdapter, Shifted, Stale, TouchCancel, position,
              scroller
<1>6. ASSUME HandleMessage PROVE OnlyTouch /\ OnlyAdapter
  <2> DEFINE scrolled(y) == Scrolled(lastScrollY - y)
  <2>1. PICK y \in CurrY :
          /\ scrollerY' = y
          /\ \/ /\ ~finished
                /\ scrollingOffset' = scrolled(y).offset
                /\ lastScrollY' = y
                /\ UNCHANGED <<message, isScrollingPerformed, finalY, finished>>
             \/ /\ scrollingOffset' = scrolled(y).offset
                /\ Justify(scrolled(y).offset, y)
             \/ /\ FinishScrolling(scrolled(y).offset)
                /\ lastScrollY' = y
    BY <1>6, MessageCases
  <2>2. lastScrollY - y \in Int
    BY <2>1, CurrYIsInteger DEF TypeOK
  <2>3. scrolled(y).offset \in Int
    BY <2>2, ScrolledIsSound, ConstantsAssumption
  <2>4. message = "JUSTIFY" /\ ~finished /\ ~Shifted =>
            scrolled(y).offset = finalY - y
    BY CentringAdvances
  <2> HIDE DEF scrolled
  <2>5. CASE /\ ~finished
             /\ scrollingOffset' = scrolled(y).offset
             /\ lastScrollY' = y
             /\ UNCHANGED <<message, isScrollingPerformed, finalY, finished>>
    <3>1. ~Stale'
      BY <2>1, <2>5 DEF Stale
    <3>2. ~Shifted => ~Shifted'
      BY <2>4, <2>5 DEF Shifted
    <3> QED
      BY <3>1, <3>2 DEF OnlyTouch, OnlyAdapter
  <2>6. CASE /\ scrollingOffset' = scrolled(y).offset
             /\ Justify(scrolled(y).offset, y)
    <3>1. ~Shifted' /\ (finished' => lastScrollY' = y)
      BY <2>3, <2>6, JustifyIsNotShifted
    <3> QED
      BY <2>1, <3>1 DEF OnlyTouch, OnlyAdapter, Stale
  <2>7. CASE FinishScrolling(scrolled(y).offset) /\ lastScrollY' = y
    BY <2>1, <2>7 DEF OnlyTouch, OnlyAdapter, Shifted, Stale, FinishScrolling
  <2> QED
    BY <2>1, <2>5, <2>6, <2>7
<1>7. ASSUME NEW count \in Counts, NEW index \in -1 .. count - 1,
             SetViewAdapter(count, index)
      PROVE  OnlyTouch /\ OnlyAdapter
  <2>1. OnlyTouch
    BY <1>7 DEF OnlyTouch, Stale, SetViewAdapter, scroller
  <2>2. OnlyAdapter
    BY <1>7, Zenon DEF OnlyAdapter
  <2> QED
    BY <2>1, <2>2
<1>8. ASSUME UNCHANGED vars PROVE OnlyTouch /\ OnlyAdapter
  BY <1>8 DEF vars, position, scroller, OnlyTouch, OnlyAdapter, Stale, Shifted
<1> HIDE DEF OnlyTouch, OnlyAdapter
<1> QED
  BY <1>1, <1>2, <1>3, <1>4, <1>5, <1>6, <1>7, <1>8 DEF Next, Touch

(* A message that centres, or ends the centring, keeps the current item,    *)
(* unless the Y it applies is stale or the offset has been reset under it.  *)
LEMMA CentringTurns ==
    ASSUME TypeOK, NearestItem, message = "JUSTIFY", HandleMessage,
           ~Stale, ~Shifted
    PROVE  currentItem' = currentItem
<1>1. PICK y \in CurrY : currentItem' = Scrolled(lastScrollY - y).item
  BY MessageCases
<1>2. CASE finished
  <2>1. y = lastScrollY /\ lastScrollY \in Int
    BY <1>2 DEF CurrY, Stale, TypeOK
  <2>2. lastScrollY - y = 0
    BY <2>1
  <2> QED
    BY <1>1, <2>2 DEF Scrolled
<1>3. CASE ~finished
  BY <1>1, <1>3, CentringAdvances
<1> QED
  BY <1>2, <1>3

(* Whatever gesture or animation it ends, and whenever adapters are set,    *)
(* centring turns the wheel to another item only where a touch has left a   *)
(* stale Y or a new adapter has reset the offset under the animation; and   *)
(* nothing else brings either about: JustifyKeepsItem for every size.       *)
THEOREM CentringKeepsItem == Spec => JustifyKeepsItem
<1> DEFINE Keeps ==
        /\ message = "JUSTIFY" /\ HandleMessage /\ currentItem' # currentItem
                => Stale \/ Shifted
        /\ Stale' => Stale \/ TouchDown
        /\ Shifted' => \/ Shifted
                       \/ \E count \in Counts : \E index \in -1 .. count - 1 :
                             SetViewAdapter(count, index)
<1>1. Init => Held
  BY DEF Init, Held
<1>2. Held /\ [Next]_vars => Held'
  BY NextHeld
<1>3. TypeOK /\ NearestItem /\ Held /\ [Next]_vars => [Keeps]_vars
  <2> SUFFICES ASSUME TypeOK, NearestItem, Held, [Next]_vars PROVE Keeps
    OBVIOUS
  <2>1. OnlyTouch /\ OnlyAdapter
    BY NextApart
  <2>2. message = "JUSTIFY" /\ HandleMessage /\ currentItem' # currentItem
            => Stale \/ Shifted
    BY CentringTurns
  <2> QED
    BY <2>1, <2>2, Zenon DEF OnlyTouch, OnlyAdapter
<1>4. Spec => []TypeOK /\ []NearestItem
  BY OffsetWithinView, CurrentItemIsNearest
<1> QED
  BY <1>1, <1>2, <1>3, <1>4, PTL DEF Spec, JustifyKeepsItem

=============================================================================
