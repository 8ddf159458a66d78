----------------------------- MODULE WheelScroll -----------------------------
(***************************************************************************)
(* A wheel under the finger: WheelView's position and WheelScroller's      *)
(* gestures and animation, all on the UI thread. Items are counted from 0, *)
(* a position is currentItem * ItemHeight - scrollingOffset.               *)
(* External: android.widget.Scroller, which moves its Y from 0 to its      *)
(* final value unless forceFinished, and keeps the old Y until it is       *)
(* asked to compute a new one; and the GestureDetector.                    *)
(***************************************************************************)
EXTENDS Integers

CONSTANTS
    ItemHeight, Height,   \* in pixels
    Counts,               \* the item counts of the adapters the app sets
    Moves,                \* bound: how far a finger moves at once
    Flings                \* bound: how far a fling goes

ASSUME ConstantsAssumption ==
    /\ ItemHeight \in Nat \ {0}
    /\ Height \in Nat /\ Height >= ItemHeight
    /\ Counts \subseteq Nat \ {0}
    /\ Moves \subseteq Int \ {0}
    /\ Flings \subseteq Int \ {0}

VARIABLES
    currentItem, scrollingOffset, itemCount, isCyclic,
    isScrollingPerformed,   \* WheelView's and WheelScroller's: always equal
    lastScrollY,
    message,                \* the pending MESSAGE_SCROLL or MESSAGE_JUSTIFY
    scrollerY, finalY, finished,   \* the Scroller
    touch                   \* "down", "up", or "cancelled": up by ACTION_CANCEL

position == <<currentItem, scrollingOffset>>
adapter  == <<itemCount, isCyclic>>
scroller == <<scrollerY, finalY, finished>>
vars == <<position, adapter, isScrollingPerformed, lastScrollY, message,
          scroller, touch>>

MIN_DELTA_FOR_SCROLLING == 1

Abs(n)  == IF n < 0 THEN -n ELSE n
Sign(n) == IF n < 0 THEN -1 ELSE IF n > 0 THEN 1 ELSE 0

(* Java's / and % round towards zero.                                       *)
Quotient(a, b)  == Sign(a) * (Abs(a) \div b)
Remainder(a, b) == a - b * Quotient(a, b)

Init ==
    /\ itemCount \in Counts
    /\ isCyclic \in BOOLEAN
    /\ currentItem \in 0 .. itemCount - 1
    /\ scrollingOffset = 0
    /\ isScrollingPerformed = FALSE
    /\ lastScrollY = 0
    /\ message = "none"
    /\ scrollerY = 0
    /\ finalY = 0
    /\ finished = TRUE
    /\ touch = "up"

-----------------------------------------------------------------------------
\* Mutant: exactly half an item rounds to the next one.
Mutant_Fix(offset) ==
    LET rest == Remainder(offset, ItemHeight)
    IN IF Abs(rest) < ItemHeight \div 2 THEN 0 ELSE Sign(rest)

(* fixPos: whether the offset left after whole items is nearer the next one. *)
Fix(offset) ==
    LET rest == Remainder(offset, ItemHeight)
    IN IF Abs(rest) <= ItemHeight \div 2 THEN 0 ELSE Sign(rest)

\* Mutant: at an end of the list the items that do not exist are counted.
Mutant_Rolled(offset) ==
    LET passed == Quotient(offset, ItemHeight)
        pos    == currentItem - passed
        fix    == Fix(offset)
    IN IF isCyclic
       THEN [pos |-> (pos - fix) % itemCount, count |-> passed + fix]
       ELSE IF pos < 0 THEN [pos |-> 0, count |-> passed]
       ELSE IF pos >= itemCount THEN [pos |-> itemCount - 1, count |-> passed]
       ELSE IF pos - fix \in 0 .. itemCount - 1
       THEN [pos |-> pos - fix, count |-> passed + fix]
       ELSE [pos |-> pos, count |-> passed]

(* doScroll: the item the wheel stops at and the items it passed.           *)
Rolled(offset) ==
    LET passed == Quotient(offset, ItemHeight)
        pos    == currentItem - passed
        fix    == Fix(offset)
    IN IF isCyclic
       THEN [pos |-> (pos - fix) % itemCount, count |-> passed + fix]
       ELSE IF pos < 0 THEN [pos |-> 0, count |-> currentItem]
       ELSE IF pos >= itemCount
       THEN [pos |-> itemCount - 1, count |-> currentItem - itemCount + 1]
       ELSE IF pos - fix \in 0 .. itemCount - 1
       THEN [pos |-> pos - fix, count |-> passed + fix]
       ELSE [pos |-> pos, count |-> passed]

\* Mutant: an offset past the view's top is only wrapped.
Mutant_Clamped(left) ==
    IF left > Height THEN Remainder(left, Height) + Height
    ELSE IF left < -Height THEN -Height ELSE left

Clamped(left) ==
    IF left > Height THEN Height ELSE IF left < -Height THEN -Height ELSE left

(* What doScroll leaves of the offset when it has passed "count" items.     *)
Left(offset, count) ==
    IF offset - count * ItemHeight > Height
    THEN Remainder(offset - count * ItemHeight, Height) + Height
    ELSE offset - count * ItemHeight

(* WheelView's onScroll: doScroll, then the offset is cut to the height and *)
(* the scroller stopped.                                                    *)
Scrolled(delta) ==
    LET rolled == Rolled(scrollingOffset + delta)
        left   == Left(scrollingOffset + delta, rolled.count)
    IN IF delta = 0
       THEN [item |-> currentItem, offset |-> scrollingOffset, stop |-> FALSE]
       ELSE [item |-> rolled.pos, offset |-> Clamped(left),
             stop |-> Abs(left) > Height]

\* Mutant: the animation goes on from where the last one was left.
Mutant_StartScroll(distance) ==
    /\ finalY' = distance
    /\ finished' = FALSE
    /\ UNCHANGED lastScrollY

(* Scroller.startScroll(0, 0, 0, distance), Scroller.fling(0, 0, ...).      *)
StartScroll(distance) ==
    /\ lastScrollY' = 0
    /\ finalY' = distance
    /\ finished' = FALSE

\* Mutant: the message is only sent with a scroll.
Mutant_Justify(offset, last) ==
    IF Abs(offset) > MIN_DELTA_FOR_SCROLLING
    THEN /\ StartScroll(offset)
         /\ isScrollingPerformed' = TRUE
         /\ message' = "JUSTIFY"
    ELSE /\ lastScrollY' = last
         /\ finished' = TRUE
         /\ message' = "none"
         /\ UNCHANGED <<finalY, isScrollingPerformed>>

(* justify(), with the offset and the lastScrollY of that moment. The       *)
(* MESSAGE_SCROLL of onJustify is replaced by MESSAGE_JUSTIFY.              *)
Justify(offset, last) ==
    /\ message' = "JUSTIFY"
    /\ IF Abs(offset) > MIN_DELTA_FOR_SCROLLING
       THEN StartScroll(offset) /\ isScrollingPerformed' = TRUE
       ELSE /\ lastScrollY' = last
            /\ finished' = TRUE
            /\ UNCHANGED <<finalY, isScrollingPerformed>>

\* Mutant: the offset is trusted to be zero.
Mutant_FinishScrolling(offset) ==
    /\ message' = "none"
    /\ isScrollingPerformed' = FALSE
    /\ scrollingOffset' = offset

FinishScrolling(offset) ==
    /\ message' = "none"
    /\ isScrollingPerformed' = FALSE
    /\ scrollingOffset' = IF isScrollingPerformed THEN 0 ELSE offset

-----------------------------------------------------------------------------
TouchDown ==
    /\ touch # "down"
    /\ touch' = "down"
    /\ finished' = TRUE
    /\ message' = "none"
    /\ UNCHANGED <<position, adapter, isScrollingPerformed, lastScrollY,
                   scrollerY, finalY>>

TouchMove(d) ==
    /\ touch = "down"
    /\ isScrollingPerformed' = TRUE
    /\ currentItem' = Scrolled(d).item
    /\ scrollingOffset' = Scrolled(d).offset
    /\ UNCHANGED <<adapter, lastScrollY, message, scroller, touch>>

TouchUp ==
    /\ touch = "down"
    /\ touch' = "up"
    /\ Justify(scrollingOffset, lastScrollY)
    /\ UNCHANGED <<position, adapter, scrollerY>>

(* A finger lifted in motion: onFling, and no justify.                      *)
Fling(distance) ==
    /\ touch = "down"
    /\ isScrollingPerformed
    /\ touch' = "up"
    /\ StartScroll(distance)
    /\ message' = "SCROLL"
    /\ UNCHANGED <<position, adapter, isScrollingPerformed, scrollerY>>

(* ACTION_CANCEL is neither a fling nor ACTION_UP.                          *)
TouchCancel ==
    /\ touch = "down"
    /\ touch' = "cancelled"
    /\ UNCHANGED <<position, adapter, isScrollingPerformed, lastScrollY,
                   message, scroller>>

(* computeScrollOffset and getCurrY.                                        *)
CurrY ==
    IF finished THEN {scrollerY}
    ELSE lastScrollY .. finalY \cup finalY .. lastScrollY

HandleMessage ==
    /\ message # "none"
    /\ \E y \in CurrY :
        LET scrolled == Scrolled(lastScrollY - y)
            ended    == finished \/ scrolled.stop \/ y = finalY
        IN /\ scrollerY' = y
           /\ currentItem' = scrolled.item
           /\ \/ /\ ~ended
                 /\ scrollingOffset' = scrolled.offset
                 /\ lastScrollY' = y
                 /\ UNCHANGED <<message, isScrollingPerformed, finalY, finished>>
              \/ /\ ended /\ message = "SCROLL"
                 /\ scrollingOffset' = scrolled.offset
                 /\ Justify(scrolled.offset, y)
              \/ /\ ended /\ message = "JUSTIFY"
                 /\ FinishScrolling(scrolled.offset)
                 /\ lastScrollY' = y
                 /\ finished' = TRUE
                 /\ UNCHANGED finalY
    /\ UNCHANGED <<adapter, touch>>

(* setCurrentItem, of an index of the list or of -1: a wheel that is not     *)
(* cyclic then keeps the item it has, whether or not the list still has it. *)
SetCurrentItem(index, count) ==
    currentItem' = IF index >= 0 THEN index
                   ELSE IF isCyclic THEN count - 1 ELSE currentItem

(* The activity's loadApertures and the like: a new adapter always, the     *)
(* indexOf of the status's value only when the wheel is not scrolling.      *)
SetViewAdapter(count, index) ==
    /\ itemCount' = count
    /\ scrollingOffset' = 0
    /\ IF isScrollingPerformed THEN UNCHANGED currentItem
       ELSE SetCurrentItem(index, count)
    /\ UNCHANGED <<isCyclic, isScrollingPerformed, lastScrollY, message,
                   scroller, touch>>

-----------------------------------------------------------------------------
Touch ==
    \/ TouchDown
    \/ \E d \in Moves : TouchMove(d)
    \/ TouchUp
    \/ \E d \in Flings : Fling(d)
    \/ TouchCancel

Next ==
    \/ Touch
    \/ HandleMessage
    \/ \E count \in Counts : \E index \in -1 .. count - 1 :
            SetViewAdapter(count, index)

Spec == Init /\ [][Next]_vars

(* The looper delivers messages, and the Scroller's time goes on.           *)
FairSpec == Spec /\ WF_vars(HandleMessage)

-----------------------------------------------------------------------------
(* Every variable has its type; the offset stays within the view.           *)
TypeOK ==
    /\ currentItem \in Nat
    /\ scrollingOffset \in -Height .. Height
    /\ itemCount \in Counts
    /\ isCyclic \in BOOLEAN
    /\ isScrollingPerformed \in BOOLEAN
    /\ lastScrollY \in Int /\ scrollerY \in Int /\ finalY \in Int
    /\ message \in {"none", "SCROLL", "JUSTIFY"}
    /\ finished \in BOOLEAN
    /\ touch \in {"up", "down", "cancelled"}

(* The current item is the one nearest the centre: only past an end of the  *)
(* list is the wheel further than half an item from it. And it is in the    *)
(* list, unless a shorter one has come, under an animation or without the   *)
(* status's value, and the wheel has not moved since: no gesture and no     *)
(* animation leaves a wheel off centre at an item that does not exist.      *)
NearestItem ==
    /\ \/ Abs(scrollingOffset) <= ItemHeight \div 2
       \/ ~isCyclic /\ currentItem = 0 /\ scrollingOffset > 0
       \/ ~isCyclic /\ currentItem = itemCount - 1 /\ scrollingOffset < 0
    /\ currentItem >= itemCount => scrollingOffset = 0

Pixels == currentItem * ItemHeight - scrollingOffset

(* The wheel follows the finger to the pixel, whatever items are passed and *)
(* rounded, unless it is held at the height of the view.                    *)
FollowsFinger ==
    [][\A d \in Moves : TouchMove(d) =>
            \/ Pixels' = Pixels - d
            \/ isCyclic /\ (Pixels' - Pixels + d) % (itemCount * ItemHeight) = 0
            \/ Abs(scrollingOffset') = Height]_vars

(* The finished Scroller's Y is not the one last applied: a touch has caught *)
(* an animation before its first message.                                   *)
Stale == finished /\ scrollerY # lastScrollY

(* The way still to go is not the way back to the item: setViewAdapter has  *)
(* reset the offset under the animation.                                    *)
Shifted ==
    message = "JUSTIFY" /\ ~finished /\ scrollingOffset # finalY - lastScrollY

(* "Justifying callback called to justify a view when scrolling is ended":  *)
(* centring turns the wheel to another item, which posts a setting nobody   *)
(* chose, in these two cases only, and only a touch brings about the first, *)
(* only a new adapter the second.                                           *)
JustifyKeepsItem ==
    [][/\ message = "JUSTIFY" /\ HandleMessage /\ currentItem' # currentItem
            => Stale \/ Shifted
       /\ Stale' => Stale \/ TouchDown
       /\ Shifted' => \/ Shifted
                      \/ \E count \in Counts : \E index \in -1 .. count - 1 :
                            SetViewAdapter(count, index)]_vars

(* With no finger and no message the wheel is centred and known not to      *)
(* scroll, so that a status may turn it. A gesture that was cancelled may   *)
(* leave it off centre and scrolling until the next one, which repairs it.  *)
RestIsCentred ==
    touch = "up" /\ message = "none" =>
        scrollingOffset = 0 /\ ~isScrollingPerformed

(* "Callback method to be invoked when scrolling ended": a wheel whose      *)
(* finger is gone, but for one that was cancelled, does not count as        *)
(* scrolling for ever.                                                      *)
ScrollEnds ==
    (touch = "up" /\ isScrollingPerformed)
        ~> (touch = "down" \/ ~isScrollingPerformed)

=============================================================================
