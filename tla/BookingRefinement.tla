------------------------- MODULE BookingRefinement -------------------------
(***************************************************************************)
(* Booking implements RideBoard, for every number of bookings, screens,    *)
(* windows and requests in flight: its initial states are initial states   *)
(* of the board and each of its steps is a step of the board or changes    *)
(* nothing on it.                                                          *)
(***************************************************************************)
EXTENDS BookingProofs

-----------------------------------------------------------------------------
(* Two more facts about the calls in flight: the HomeVCs exist in the      *)
(* order they were made and only those have calls, and a ride that was     *)
(* answered to be cancelled still is.                                      *)
CallsOfHomes == \A s \in Slots : net[s].kind \in HomeKinds => net[s].home \in homes
LaterHomesAreNew == \A h \in Homes : h > cur => ~home[h].mixed
CancelledIsFinal ==
  \A s \in Slots : net[s].kind = "ride" /\ net[s].ans = "cancelled" =>
    status[net[s].bk] = "cancelled"

HomesInOrder == homes = 1 .. cur /\ CallsOfHomes /\ LaterHomesAreNew
RInv == HomesInOrder /\ CancelledIsFinal

(* A call that takes a slot is from a HomeVC in memory and not yet         *)
(* answered.                                                               *)
Fresh(call) == (call.kind \in HomeKinds => call.home \in homes') /\ call.ans = "none"

(* How a step may change the calls: not at all, one new call in a slot, or *)
(* one answer.                                                             *)
LEMMA NetSame ==
  ASSUME TypeOK, IInv, CallsOfHomes, CancelledIsFinal, homes \subseteq homes',
         \A x \in Bookings : status[x] = "cancelled" => status'[x] = "cancelled",
         net' = net
  PROVE  CallsOfHomes' /\ CancelledIsFinal'
<1>1. \A s \in Slots : CallOK(net[s])
  BY DEF IInv
<1>2. \A s \in Slots : net[s].kind = "ride" /\ net[s].ans = "cancelled" =>
        net[s].bk \in Bookings
  BY <1>1 DEF CallOK, Answered
<1>. QED
  BY <1>2 DEF CallsOfHomes, CancelledIsFinal

LEMMA NetFilled ==
  ASSUME TypeOK, IInv, CallsOfHomes, CancelledIsFinal, homes \subseteq homes',
         status' = status,
         NEW s \in Slots, NEW call, Fresh(call), net' = [net EXCEPT ![s] = call]
  PROVE  CallsOfHomes' /\ CancelledIsFinal'
<1>1. ASSUME NEW t \in Slots
      PROVE  net'[t] = IF t = s THEN call ELSE net[t]
  BY DEF TypeOK
<1>2. CallsOfHomes'
  BY <1>1 DEF CallsOfHomes, Fresh
<1>3. CancelledIsFinal'
  BY <1>1 DEF CancelledIsFinal, Fresh
<1>. QED
  BY <1>2, <1>3

LEMMA NetFreed ==
  ASSUME TypeOK, IInv, CallsOfHomes, CancelledIsFinal, homes \subseteq homes',
         status' = status, NEW s \in Slots, Free(s)
  PROVE  CallsOfHomes' /\ CancelledIsFinal'
<1>1. Fresh(Idle)
  BY DEF Fresh, Idle, Call, HomeKinds
<1>. QED
  BY <1>1, NetFilled DEF Free

LEMMA NetAnswered ==
  ASSUME TypeOK, IInv, CallsOfHomes, CancelledIsFinal, homes' = homes,
         \A x \in Bookings : status[x] = "cancelled" => status'[x] = "cancelled",
         NEW s \in Slots, NEW b, NEW a,
         net' = [net EXCEPT ![s].bk = b, ![s].ans = a],
         net[s].kind = "ride" /\ a = "cancelled" => status'[b] = "cancelled"
  PROVE  CallsOfHomes' /\ CancelledIsFinal'
<1>1. \A t \in Slots : /\ net'[t].kind = net[t].kind /\ net'[t].home = net[t].home
                       /\ t # s => net'[t] = net[t]
                       /\ t = s => net'[t].bk = b /\ net'[t].ans = a
  <2>1. net \in [Slots -> Calls]
    BY DEF TypeOK
  <2>2. net' = [net EXCEPT ![s] = [net[s] EXCEPT !.bk = b, !.ans = a]]
    OBVIOUS
  <2>3. \A t \in Slots : t # s => net'[t] = net[t]
    BY <2>1, <2>2
  <2>4. net'[s] = [net[s] EXCEPT !.bk = b, !.ans = a]
    BY <2>1, <2>2
  <2>5. PICK r : r = net[s] /\ r \in [kind : Kinds, home : 0 .. MaxHomes,
                                      view : AnyView, bk : AnyBooking, ans : Answers]
    BY <2>1 DEF Calls
  <2>6. [r EXCEPT !.bk = b, !.ans = a].kind = r.kind
    BY <2>5
  <2>7. [r EXCEPT !.bk = b, !.ans = a].home = r.home
    BY <2>5
  <2>8. [r EXCEPT !.bk = b, !.ans = a].bk = b
    BY <2>5
  <2>9. [r EXCEPT !.bk = b, !.ans = a].ans = a
    BY <2>5
  <2>. QED
    BY <2>3, <2>4, <2>5, <2>6, <2>7, <2>8, <2>9
<1>2. CallsOfHomes'
  <2>1. \A t \in Slots : net'[t].kind \in HomeKinds => net'[t].home \in homes
    BY <1>1 DEF CallsOfHomes
  <2>. QED
    BY <2>1 DEF CallsOfHomes
<1>3. \A t \in Slots : CallOK(net[t])
  BY DEF IInv
<1>4. \A t \in Slots : net[t].kind = "ride" /\ net[t].ans = "cancelled" =>
        net[t].bk \in Bookings
  BY <1>3 DEF CallOK, Answered
<1>5. ASSUME NEW t \in Slots, net'[t].kind = "ride", net'[t].ans = "cancelled"
      PROVE  status'[net'[t].bk] = "cancelled"
  <2>1. CASE t = s
    BY <1>1, <1>5, <2>1
  <2>2. CASE t # s
    <3>1. net'[t] = net[t]
      BY <1>1, <2>2
    <3>2. net[t].bk \in Bookings /\ status[net[t].bk] = "cancelled"
      BY <1>4, <1>5, <3>1 DEF CancelledIsFinal
    <3>. QED
      BY <3>1, <3>2
  <2>. QED
    BY <2>1, <2>2
<1>. QED
  BY <1>2, <1>5 DEF CancelledIsFinal

(* The invariant holds at first and every step keeps it.                   *)
LEMMA InitRInv == Init => RInv
BY DEF Init, RInv, HomesInOrder, CallsOfHomes, LaterHomesAreNew, CancelledIsFinal,
       NewHome, Homes, Idle, Call, HomeKinds

(* The HomeVCs after a step that makes no window.                          *)
LEMMA HomesSame ==
  ASSUME TypeOK, HomesInOrder, UNCHANGED <<homes, cur>>,
         \A h \in Homes : h > cur => home'[h].mixed = home[h].mixed,
         CallsOfHomes'
  PROVE  HomesInOrder'
BY DEF HomesInOrder, LaterHomesAreNew

LEMMA HomesMade ==
  ASSUME TypeOK, HomesInOrder, MakeRoot, home' = home, CallsOfHomes'
  PROVE  HomesInOrder'
<1>1. cur \in Nat /\ cur >= 1 /\ cur' = cur + 1
  BY DEF TypeOK, MakeRoot, Homes
<1>2. homes' = 1 .. cur'
  BY <1>1 DEF HomesInOrder, MakeRoot
<1>3. LaterHomesAreNew'
  BY <1>1 DEF HomesInOrder, LaterHomesAreNew, Homes
<1>. QED
  BY <1>2, <1>3 DEF HomesInOrder

LEMMA NextRInv ==
  ASSUME TypeOK, IInv, RInv, [Next]_vars
  PROVE  RInv'
<1>a. /\ CallsOfHomes /\ CancelledIsFinal /\ HomesInOrder
      /\ cur \in Homes /\ cur \in homes /\ homes = 1 .. cur /\ Homes \subseteq Nat
  BY DEF RInv, HomesInOrder, TypeOK, Homes
<1>. DEFINE LaterKept == \A h \in Homes : h > cur => home'[h].mixed = home[h].mixed
<1>b. ASSUME NEW s \in Slots, Free(s), UNCHANGED <<status, homes, cur>>, LaterKept
      PROVE  RInv'
  BY <1>a, <1>b, NetFreed, HomesSame DEF RInv
<1>c. ASSUME NEW s \in Slots, NEW call, Fresh(call), Becomes(s, call),
             UNCHANGED <<status, homes, cur>>, LaterKept
      PROVE  RInv'
  BY <1>a, <1>c, NetFilled, HomesSame DEF RInv, Becomes
<1>d. ASSUME NEW call, Fresh(call), Start(call), UNCHANGED <<status, homes, cur>>, LaterKept
      PROVE  RInv'
  BY <1>c, <1>d DEF Start
<1>e. ASSUME net' = net, UNCHANGED <<homes, cur>>, LaterKept,
             \A x \in Bookings : status[x] = "cancelled" => status'[x] = "cancelled"
      PROVE  RInv'
  BY <1>a, <1>e, NetSame, HomesSame DEF RInv
<1>f. ASSUME NEW s \in Slots, NEW b, NEW a, net' = [net EXCEPT ![s].bk = b, ![s].ans = a],
             UNCHANGED <<homes, home, cur>>,
             \A x \in Bookings : status[x] = "cancelled" => status'[x] = "cancelled",
             net[s].kind = "ride" /\ a = "cancelled" => status'[b] = "cancelled"
      PROVE  RInv'
  BY <1>a, <1>f, NetAnswered, HomesSame DEF RInv
<1>g. ASSUME NEW s \in Slots, NEW a, Answer(s, a), UNCHANGED <<homes, home, cur>>,
             \A x \in Bookings : status[x] = "cancelled" => status'[x] = "cancelled",
             net[s].kind = "ride" /\ a = "cancelled" => status'[net[s].bk] = "cancelled"
      PROVE  RInv'
  <2>1. net[s] \in [kind : Kinds, home : 0 .. MaxHomes, view : AnyView,
                    bk : AnyBooking, ans : Answers]
    BY DEF TypeOK, Calls
  <2>2. PICK r : r = net[s]
    OBVIOUS
  <2>3. [r EXCEPT !.bk = r.bk, !.ans = a] = [r EXCEPT !.ans = a]
    BY <2>1, <2>2
  <2>4. net' = [net EXCEPT ![s] = [r EXCEPT !.ans = a]]
    BY <1>g, <2>2 DEF Answer
  <2>5. net' = [net EXCEPT ![s].bk = r.bk, ![s].ans = a]
    BY <2>2, <2>3, <2>4
  <2>. QED
    BY <1>f, <1>g, <2>2, <2>5
<1>h. Fresh(Idle) /\ \A k \in Kinds : \A v, b : k \notin HomeKinds => Fresh(Call(k, 0, v, b))
  BY DEF Fresh, Idle, Call, HomeKinds
<1>i. ASSUME NEW k, NEW h \in homes', NEW v, NEW b
      PROVE  Fresh(Call(k, h, v, b))
  BY <1>i DEF Fresh, Call
<1>1. CASE TapMarker \/ DismissSheet
  <2>1. LaterKept
    BY <1>1, <1>a DEF TapMarker, DismissSheet, TypeOK
  <2>. QED
    BY <1>1, <1>e, <2>1 DEF TapMarker, DismissSheet
<1>2. CASE ConfirmDriver
  <2>1. LaterKept
    BY <1>2, <1>a DEF ConfirmDriver, TypeOK
  <2>. QED
    BY <1>2, <1>a, <1>d, <1>i, <2>1 DEF ConfirmDriver
<1>3. CASE SelectVehicle
  <2>1. LaterKept
    BY <1>3, <1>a DEF SelectVehicle, TypeOK
  <2>. QED
    BY <1>3, <1>a, <1>d, <1>i, <2>1 DEF SelectVehicle
<1>4. CASE PressCancelRide \/ BackFromCancel
  BY <1>4, <1>e DEF PressCancelRide, BackFromCancel
<1>5. CASE SubmitCancel
  BY <1>5, <1>d, <1>h DEF SubmitCancel, Kinds, HomeKinds
<1>6. CASE SubmitFeedback
  BY <1>6, <1>d, <1>h DEF SubmitFeedback, Kinds, HomeKinds
<1>7. ASSUME NEW h \in Homes, HomeForeground(h)
      PROVE  RInv'
  BY <1>7, <1>d, <1>i DEF HomeForeground
<1>8. ASSUME NEW v \in Views, RideForeground(v)
      PROVE  RInv'
  BY <1>8, <1>d, <1>h DEF RideForeground, Kinds, HomeKinds, RideKinds
<1>9. ASSUME MakeRoot, home' = home, status' = status,
             net' = net \/ \E s \in Slots : Free(s)
      PROVE  RInv'
  <2>1. homes \subseteq homes'
    BY <1>9 DEF MakeRoot
  <2>2. CallsOfHomes' /\ CancelledIsFinal'
    BY <1>9, <1>a, <2>1, NetSame, NetFreed
  <2>. QED
    BY <1>9, <1>a, <2>2, HomesMade DEF RInv
<1>10. CASE SkipFeedback
  BY <1>10, <1>9 DEF SkipFeedback
<1>11. CASE Relaunch
  <2>1. homes' = 1 .. cur' /\ LaterHomesAreNew'
    BY <1>11 DEF Relaunch, LaterHomesAreNew, NewHome
  <2>2. CallsOfHomes' /\ CancelledIsFinal'
    BY <1>11 DEF Relaunch, CallsOfHomes, CancelledIsFinal, Idle, Call, HomeKinds
  <2>. QED
    BY <2>1, <2>2 DEF RInv, HomesInOrder
<1>12. ASSUME NEW s \in Slots, Handle(s)
       PROVE  RInv'
  <2>1. CASE GeocodeAnswered(s)
    <3>1. net[s].home \in 1 .. cur
      BY <2>1, <1>a DEF GeocodeAnswered, CallsOfHomes, HomeKinds
    <3>2. PICK k \in 1 .. cur : home' = home \/ home' = [home EXCEPT ![k].addr = TRUE]
      BY <2>1, <3>1 DEF GeocodeAnswered
    <3>3. \A h \in Homes \ {k} : home'[h] = home[h]
      BY <3>2 DEF TypeOK
    <3>4. LaterKept
      BY <3>2, <3>3, <1>a
    <3>. QED
      BY <2>1, <3>4, <1>b DEF GeocodeAnswered
  <2>2. CASE BookingRequest(s)
    <3>1. net[s].home \in homes
      BY <2>2, <1>a DEF BookingRequest, CallsOfHomes, HomeKinds
    <3>. QED
      BY <2>2, <3>1, <1>b, <1>c, <1>i DEF BookingRequest
  <2>3. CASE BookingAnswered(s)
    <3>1. net[s].home \in homes
      BY <2>3, <1>a DEF BookingAnswered, CallsOfHomes, HomeKinds
    <3>2. LaterKept
      <4>1. PICK h \in 1 .. cur : h = net[s].home
        BY <3>1, <1>a
      <4>2. CASE home' = home
        BY <4>2
      <4>3. CASE home' = [home EXCEPT ![h].bk = net[s].bk,
                                      ![h].mixed = @ \/ ChecksAnother(h, net[s].bk)]
        <5>1. \A k \in Homes \ {h} : home'[k] = home[k]
          BY <4>3 DEF TypeOK
        <5>. QED
          BY <4>1, <5>1, <1>a
      <4>. QED
        BY <2>3, <4>1, <4>2, <4>3 DEF BookingAnswered
    <3>. QED
      BY <2>3, <3>1, <3>2, <1>b, <1>c, <1>i DEF BookingAnswered
  <2>4. CASE StatusPending(s)
    <3>1. net[s].home \in homes
      BY <2>4, <1>a DEF StatusPending, CallsOfHomes, HomeKinds
    <3>. QED
      BY <2>4, <3>1, <1>c, <1>i DEF StatusPending
  <2>5. CASE StatusRefused(s)
    BY <2>5, <1>b DEF StatusRefused
  <2>6. CASE StatusAccepted(s)
    <3>1. PICK v : Becomes(s, Call("route", 0, v, NoBooking))
      BY <2>6 DEF StatusAccepted, AskRoute
    <3>2. Fresh(Call("route", 0, v, NoBooking))
      BY <1>h DEF Kinds, HomeKinds, RideKinds
    <3>3. UNCHANGED <<status, home, homes, cur>>
      BY <2>6 DEF StatusAccepted
    <3>. QED
      BY <3>1, <3>2, <3>3, <1>c
  <2>7. CASE RouteAnswered(s)
    BY <2>7, <1>b, <1>c, <1>h DEF RouteAnswered, Kinds, HomeKinds, RideKinds
  <2>8. CASE RideGoesOn(s)
    BY <2>8, <1>c, <1>h DEF RideGoesOn, Kinds, HomeKinds, RideKinds
  <2>9. CASE RideCompleted(s) \/ RideCancelled(s) \/ RideUnknown(s)
    BY <2>9, <1>b DEF RideCompleted, RideCancelled, RideUnknown
  <2>10. CASE CancelAnswered(s) \/ RatingAnswered(s)
    BY <2>10, <1>b, <1>9 DEF CancelAnswered, RatingAnswered
  <2>. QED
    BY <1>12, <2>1, <2>2, <2>3, <2>4, <2>5, <2>6, <2>7, <2>8, <2>9, <2>10 DEF Handle
<1>13. ASSUME NEW s \in Slots, Serve(s)
       PROVE  RInv'
  <2>1. CASE ServeBooking(s)
    <3>1. PICK b \in Bookings :
            /\ status[b] = "none" /\ status' = [status EXCEPT ![b] = "pending"]
            /\ net' = [net EXCEPT ![s].bk = b, ![s].ans = "Success"]
      BY <2>1 DEF ServeBooking
    <3>2. \A x \in Bookings : status[x] = "cancelled" => status'[x] = "cancelled"
      BY <3>1 DEF TypeOK
    <3>. QED
      BY <2>1, <3>1, <3>2, <1>f DEF ServeBooking
  <2>2. CASE ServeStatus(s)
    BY <2>2, <1>g DEF ServeStatus
  <2>3. CASE ServeCancel(s)
    <3>1. \A x \in Bookings : status[x] = "cancelled" => status'[x] = "cancelled"
      BY <2>3 DEF ServeCancel, TypeOK
    <3>. QED
      BY <2>3, <3>1, <1>g DEF ServeCancel
  <2>4. CASE ServeOther(s)
    BY <2>4, <1>g DEF ServeOther
  <2>. QED
    BY <1>13, <2>1, <2>2, <2>3, <2>4 DEF Serve
<1>14. ASSUME NEW s \in Slots, Lose(s)
       PROVE  RInv'
  BY <1>14, <1>g DEF Lose
<1>15. ASSUME NEW b \in Bookings, DriverActs(b)
       PROVE  RInv'
  <2>1. \A x \in Bookings : status[x] = "cancelled" => status'[x] = "cancelled"
    BY <1>15 DEF DriverActs, TypeOK
  <2>. QED
    BY <1>15, <2>1, <1>e DEF DriverActs
<1>16. CASE UNCHANGED vars
  BY <1>16, <1>e DEF vars
<1>. QED
  BY <1>1, <1>2, <1>3, <1>4, <1>5, <1>6, <1>7, <1>8, <1>10, <1>11, <1>12, <1>13,
     <1>14, <1>15, <1>16 DEF Next, User

LEMMA Refined == Spec => []RInv
<1>1. TypeOK /\ IInv /\ RInv /\ [Next]_vars => RInv'
  BY NextRInv
<1>. QED
  BY <1>1, InitRInv, Inductive, TypeCorrect, PTL DEF Spec
-----------------------------------------------------------------------------
(* The mapping.  What the board shows are the bookings of the tracking     *)
(* screens of the stack.                                                   *)
Places(st) == {i \in 1 .. Len(st) : st[i].vc = "direction"}
ShownBy(st) == {st[i].bk : i \in Places(st)}
RatedBy(st) == \E i \in 1 .. Len(st) : st[i].vc = "feedback"

LEMMA TrackedIsShown ==
  ASSUME StackOK
  PROVE  Tracked = ShownBy(stack) /\ RatingShown = RatedBy(stack)
<1>1. ASSUME NEW i \in Places(stack)
      PROVE  stack[i].view \in views /\ stack[i].bk = ride[stack[i].view] /\ OnStack(stack[i].view)
  BY DEF StackOK, ScreenOK, Places, OnStack
<1>2. ASSUME NEW b \in Tracked
      PROVE  b \in ShownBy(stack)
  <2>1. PICK v \in views : OnStack(v) /\ b = ride[v]
    BY DEF Tracked
  <2>2. PICK i \in 1 .. Len(stack) : stack[i].vc = "direction" /\ stack[i].view = v
    BY <2>1 DEF OnStack
  <2>. QED
    BY <1>1, <2>1, <2>2 DEF Places, ShownBy
<1>3. ASSUME NEW b \in ShownBy(stack)
      PROVE  b \in Tracked
  <2>1. PICK i \in Places(stack) : b = stack[i].bk
    BY DEF ShownBy
  <2>. QED
    BY <1>1, <2>1 DEF Tracked
<1>4. RatingShown = RatedBy(stack)
  BY DEF RatingShown, RatedBy
<1>. QED
  BY <1>2, <1>3, <1>4

LEMMA TrackedIsShownNext ==
  ASSUME StackOK'
  PROVE  Tracked' = ShownBy(stack') /\ RatingShown' = RatedBy(stack')
<1>1. ASSUME NEW i \in Places(stack')
      PROVE  /\ stack'[i].view \in views'
             /\ stack'[i].bk = ride'[stack'[i].view]
             /\ \E j \in 1 .. Len(stack') :
                  stack'[j].vc = "direction" /\ stack'[j].view = stack'[i].view
  BY DEF StackOK, ScreenOK, Places
<1>2. ASSUME NEW b \in Tracked'
      PROVE  b \in ShownBy(stack')
  <2>1. PICK v \in views' : b = ride'[v] /\ \E j \in 1 .. Len(stack') :
                              stack'[j].vc = "direction" /\ stack'[j].view = v
    BY DEF Tracked, OnStack
  <2>2. PICK i \in 1 .. Len(stack') : stack'[i].vc = "direction" /\ stack'[i].view = v
    BY <2>1
  <2>. QED
    BY <1>1, <2>1, <2>2 DEF Places, ShownBy
<1>3. ASSUME NEW b \in ShownBy(stack')
      PROVE  b \in Tracked'
  <2>1. PICK i \in Places(stack') : b = stack'[i].bk
    BY DEF ShownBy
  <2>. QED
    BY <1>1, <2>1 DEF Tracked, OnStack
<1>4. RatingShown' = RatedBy(stack')
  BY DEF RatingShown, RatedBy
<1>. QED
  BY <1>2, <1>3, <1>4

LEMMA ShownPushed ==
  ASSUME stack \in Seq(Screens), NEW x \in Screens, Push(x)
  PROVE  /\ ShownBy(stack') = ShownBy(stack) \union
                                 IF x.vc = "direction" THEN {x.bk} ELSE {}
         /\ RatedBy(stack') = (RatedBy(stack) \/ x.vc = "feedback")
<1>1. /\ Len(stack) \in Nat /\ Len(stack') = Len(stack) + 1
      /\ \A i \in 1 .. Len(stack) : stack'[i] = stack[i]
      /\ stack'[Len(stack) + 1] = x
  BY PushLemma DEF Push
<1>2. Places(stack') = Places(stack) \union
                         IF x.vc = "direction" THEN {Len(stack) + 1} ELSE {}
  BY <1>1 DEF Places
<1>3. \A i \in Places(stack) : i # Len(stack) + 1 /\ stack'[i] = stack[i]
  BY <1>1 DEF Places
<1>4. ShownBy(stack') = ShownBy(stack) \union IF x.vc = "direction" THEN {x.bk} ELSE {}
  BY <1>1, <1>2, <1>3 DEF ShownBy
<1>5. RatedBy(stack) => RatedBy(stack')
  BY <1>1 DEF RatedBy
<1>6. x.vc = "feedback" => RatedBy(stack')
  BY <1>1 DEF RatedBy
<1>7. RatedBy(stack') => RatedBy(stack) \/ x.vc = "feedback"
  BY <1>1 DEF RatedBy
<1>. QED
  BY <1>4, <1>5, <1>6, <1>7 DEF RatedBy

LEMMA ShownPopped ==
  ASSUME stack \in Seq(Screens), stack # <<>>, Pop
  PROVE  \/ Top.vc = "direction" /\ RatedBy(stack') = RatedBy(stack)
            /\ ShownBy(stack') \in {ShownBy(stack), ShownBy(stack) \ {Top.bk}}
            /\ Top.bk \in ShownBy(stack)
         \/ Top.vc # "direction" /\ ShownBy(stack') = ShownBy(stack)
            /\ RatedBy(stack') = RatedBy(stack)
         \/ Top.vc = "feedback" /\ ShownBy(stack') = ShownBy(stack) /\ ~RatedBy(stack')
<1>. DEFINE n == Len(stack)
<1>1. /\ n \in Nat \ {0} /\ Len(stack') = n - 1 /\ Top = stack[n]
      /\ \A i \in 1 .. n - 1 : stack'[i] = stack[i]
  BY PopLemma DEF Top
<1>. HIDE DEF n
<1>2. /\ Places(stack') = Places(stack) \ {n}
      /\ n \in Places(stack) <=> Top.vc = "direction"
      /\ \A i \in Places(stack') : stack'[i] = stack[i]
  BY <1>1 DEF Places, n
<1>3. CASE Top.vc = "direction"
  <2>1. RatedBy(stack') = RatedBy(stack)
    BY <1>1, <1>3 DEF RatedBy, n
  <2>2. Top.bk \in ShownBy(stack)
    BY <1>1, <1>2, <1>3 DEF ShownBy
  <2>3. ShownBy(stack') \subseteq ShownBy(stack)
    BY <1>2 DEF ShownBy
  <2>4. ShownBy(stack) \subseteq ShownBy(stack') \union {Top.bk}
    BY <1>1, <1>2 DEF ShownBy
  <2>. QED
    BY <1>3, <2>1, <2>2, <2>3, <2>4
<1>4. CASE Top.vc # "direction"
  <2>1. Places(stack') = Places(stack)
    BY <1>2, <1>4
  <2>2. ShownBy(stack') = ShownBy(stack)
    BY <1>2, <2>1 DEF ShownBy
  <2>3. RatedBy(stack') => RatedBy(stack)
    BY <1>1 DEF RatedBy, n
  <2>4. Top.vc # "feedback" => RatedBy(stack') = RatedBy(stack)
    BY <1>1 DEF RatedBy, n
  <2>. QED
    BY <1>4, <2>2, <2>3, <2>4 DEF RatedBy
<1>. QED
  BY <1>3, <1>4
-----------------------------------------------------------------------------
LEMMA BoardInit == Init => Board!Init
<1>. SUFFICES ASSUME Init
              PROVE  Board!Init
  OBVIOUS
<1>1. 1 \in Homes /\ home[cur].mixed = FALSE
  BY BookingAssumption DEF Init, NewHome, Homes
<1>2. Tracked = {} /\ RatingShown = FALSE
  BY DEF Init, Tracked, RatingShown
<1>. QED
  BY <1>1, <1>2 DEF Init, Board!Init

(* Every step is one of the board's or leaves the board as it is.          *)
LEMMA BoardNext ==
  ASSUME TypeOK, IInv, IInv', RInv, [Next]_vars
  PROVE  [Board!Next]_(Board!vars)
<1>. DEFINE Mixed == home[cur].mixed
<1>a. /\ Tracked = ShownBy(stack) /\ RatingShown = RatedBy(stack)
      /\ Tracked' = ShownBy(stack') /\ RatingShown' = RatedBy(stack')
  BY TrackedIsShown, TrackedIsShownNext DEF IInv
<1>b. /\ cur \in Homes /\ Homes \subseteq Nat /\ stack \in Seq(Screens)
      /\ \A s \in Slots : net[s] \in Calls /\ CallOK(net[s])
      /\ \A h \in Homes : home[h] \in HomeFields
      /\ StackOK
  BY DEF TypeOK, IInv, Homes
<1>c. ASSUME UNCHANGED <<status, stack>>, Mixed' = Mixed
      PROVE  UNCHANGED Board!vars
  BY <1>a, <1>c DEF Board!vars
<1>d. ASSUME status' = status, Mixed' = Mixed, Tracked' = Tracked, RatingShown' = RatingShown
      PROVE  UNCHANGED Board!vars
  BY <1>d DEF Board!vars
<1>e. ASSUME NEW x \in Screens, x.vc = "cancel", Push(x), status' = status, Mixed' = Mixed
      PROVE  UNCHANGED Board!vars
  <2>1. ShownBy(stack') = ShownBy(stack)
    BY <1>b, <1>e, ShownPushed
  <2>2. RatedBy(stack') = RatedBy(stack)
    BY <1>b, <1>e, ShownPushed DEF RatedBy
  <2>. QED
    BY <1>a, <1>d, <1>e, <2>1, <2>2
<1>f. ASSUME NEW b \in Bookings, NEW new \in Board!Follows(status[b]),
             status' = [status EXCEPT ![b] = new], stack' = stack, Mixed' = Mixed
      PROVE  Board!Next
  BY <1>a, <1>f DEF Board!Next, Board!Advance
<1>g. ASSUME MakeRoot, UNCHANGED <<status, home>>
      PROVE  Board!Leave
  <2>1. ShownBy(<<>>) = {} /\ ~RatedBy(<<>>)
    BY DEF ShownBy, Places, RatedBy
  <2>2. cur' \in Homes /\ cur' > cur
    BY <1>b, <1>g, BookingAssumption DEF MakeRoot, Homes
  <2>3. Mixed' = FALSE
    BY <1>b, <1>g, <2>2 DEF RInv, HomesInOrder, LaterHomesAreNew, HomeFields
  <2>. QED
    BY <1>a, <1>g, <2>1, <2>3 DEF Board!Leave, MakeRoot
<1>1. CASE TapMarker \/ DismissSheet \/ ConfirmDriver \/ SelectVehicle
  <2>1. Mixed' = Mixed
    BY <1>1, <1>b DEF TapMarker, DismissSheet, ConfirmDriver, SelectVehicle, TypeOK,
                      HomeFields
  <2>. QED
    BY <1>1, <1>c, <2>1 DEF TapMarker, DismissSheet, ConfirmDriver, SelectVehicle
<1>2. CASE PressCancelRide
  <2>1. Screen("cancel", NoView, Top.bk) \in Screens
    BY <1>2, TopLemma DEF PressCancelRide, TypeOK, Screen, Screens, AnyView
  <2>. QED
    BY <1>2, <1>e, <2>1 DEF PressCancelRide, Screen
<1>3. CASE BackFromCancel
  <2>1. stack # <<>> /\ Top.vc = "cancel"
    BY <1>3 DEF BackFromCancel, TopIs
  <2>. QED
    BY <1>3, <1>a, <1>b, <1>d, <2>1, ShownPopped DEF BackFromCancel
<1>4. CASE SubmitCancel \/ SubmitFeedback
  BY <1>4, <1>c DEF SubmitCancel, SubmitFeedback
<1>5. CASE SkipFeedback
  BY <1>5, <1>g DEF SkipFeedback, Board!Next
<1>6. CASE \/ \E h \in Homes : HomeForeground(h)
           \/ \E v \in Views : RideForeground(v)
  BY <1>6, <1>c DEF HomeForeground, RideForeground
<1>7. CASE Relaunch
  <2>1. ShownBy(<<>>) = {} /\ ~RatedBy(<<>>)
    BY DEF ShownBy, Places, RatedBy
  <2>2. Mixed' = FALSE
    BY <1>7, BookingAssumption DEF Relaunch, Homes, NewHome
  <2>. QED
    BY <1>7, <1>a, <2>1, <2>2 DEF Relaunch, Board!Next, Board!Leave
<1>8. ASSUME NEW s \in Slots, Handle(s)
      PROVE  Board!Next \/ UNCHANGED Board!vars
  <2>1. CASE GeocodeAnswered(s)
    <3>1. Mixed' = Mixed
      BY <2>1, <1>b DEF GeocodeAnswered, TypeOK, HomeFields
    <3>. QED
      BY <2>1, <3>1, <1>c DEF GeocodeAnswered
  <2>2. CASE \/ BookingRequest(s) \/ StatusPending(s) \/ StatusRefused(s)
             \/ RouteAnswered(s) \/ RideGoesOn(s) \/ RideUnknown(s)
    BY <2>2, <1>c DEF BookingRequest, StatusPending, StatusRefused, RouteAnswered,
                      RideGoesOn, RideUnknown
  <2>3. CASE BookingAnswered(s)
    <3>1. UNCHANGED <<status, stack, cur>> /\ (Mixed' = Mixed \/ Mixed' = TRUE)
      <4>1. CASE home' = home
        BY <2>3, <4>1 DEF BookingAnswered
      <4>2. CASE home' = [home EXCEPT ![net[s].home].bk = net[s].bk,
                    ![net[s].home].mixed = @ \/ ChecksAnother(net[s].home, net[s].bk)]
        <5>1. Mixed \in BOOLEAN /\ cur' = cur
          BY <2>3, <1>b DEF BookingAnswered, HomeFields
        <5>2. CASE net[s].home = cur
          <6>1. Mixed' = (Mixed \/ ChecksAnother(net[s].home, net[s].bk))
            BY <4>2, <5>1, <5>2, <1>b DEF TypeOK, HomeFields
          <6>. QED
            BY <2>3, <5>1, <6>1 DEF BookingAnswered
        <5>3. CASE net[s].home # cur
          BY <2>3, <4>2, <5>1, <5>3, <1>b DEF TypeOK, BookingAnswered
        <5>. QED
          BY <5>2, <5>3
      <4>. QED
        BY <2>3, <4>1, <4>2 DEF BookingAnswered
    <3>. QED
      BY <1>a, <1>c, <3>1 DEF Board!Next, Board!Mix
  <2>4. CASE StatusAccepted(s)
    <3>1. PICK v \in Views : Push(Screen("direction", v, home[cur].bk))
      BY <2>4 DEF StatusAccepted, ShowRide
    <3>2. /\ net[s].kind = "check" /\ net[s].ans \in Answered /\ net[s].home = cur
          /\ UNCHANGED <<status, home, cur>>
      BY <2>4 DEF StatusAccepted, OpensRide
    <3>3. CallOK(net[s])
      BY <1>b
    <3>4. PICK b \in Bookings : b = home[cur].bk
      BY <1>b, <3>2, <3>3, BookingAssumption DEF CallOK, HomeFields, AnyBooking
    <3>5. Mixed \/ status[b] \in Answered
      BY <3>2, <3>3, <3>4, BookingAssumption DEF CallOK
    <3>6. PICK x \in Screens : x = Screen("direction", v, b)
      BY DEF Screen, Screens, AnyBooking, AnyView
    <3>7. ShownBy(stack') = ShownBy(stack) \union {b} /\ RatedBy(stack') = RatedBy(stack)
      BY <1>b, <3>1, <3>4, <3>6, ShownPushed DEF Screen, RatedBy
    <3>. QED
      BY <1>a, <3>2, <3>4, <3>5, <3>7 DEF Board!Next, Board!Show, Answered, Board!Answered
  <2>5. CASE RideCompleted(s)
    <3>1. CASE OnStack(net[s].view)
      <4>1. CallOK(net[s]) /\ net[s].kind = "ride" /\ net[s].ans = "completed"
        BY <2>5, <1>b DEF RideCompleted
      <4>2. net[s].bk \in Tracked /\ status[net[s].bk] = "completed"
        BY <3>1, <4>1 DEF CallOK, Tracked, RideKinds
      <4>3. PICK x \in Screens : x = Screen("feedback", NoView, NoBooking)
        BY DEF Screen, Screens, AnyBooking, AnyView
      <4>4. ShownBy(stack') = ShownBy(stack) /\ RatedBy(stack')
        BY <2>5, <3>1, <1>b, <4>3, ShownPushed DEF RideCompleted, Screen
      <4>. QED
        BY <2>5, <1>a, <4>2, <4>4 DEF RideCompleted, Board!Next, Board!AskForRating, RatedBy
    <3>2. CASE ~OnStack(net[s].view)
      BY <2>5, <3>2, <1>c DEF RideCompleted
    <3>. QED
      BY <3>1, <3>2
  <2>6. CASE RideCancelled(s)
    <3>1. CASE OnStack(net[s].view)
      <4>1. CallOK(net[s]) /\ net[s].kind = "ride" /\ net[s].ans = "cancelled"
        BY <2>6, <1>b DEF RideCancelled
      <4>2. net[s].bk \in Tracked /\ status[net[s].bk] = "cancelled"
        BY <3>1, <4>1 DEF CallOK, Tracked, RideKinds, RInv, CancelledIsFinal
      <4>3. /\ stack # <<>> /\ Pop /\ UNCHANGED <<status, home, cur>>
        BY <2>6, <3>1, <1>b, OnStackLemma DEF RideCancelled
      <4>4. CASE UNCHANGED <<Tracked, RatingShown>>
        BY <4>3, <4>4, <1>d
      <4>5. CASE Tracked' = Tracked /\ RatingShown' = FALSE
        BY <4>2, <4>3, <4>5 DEF Board!Next, Board!Cancelled
      <4>6. CASE \E b \in Tracked : Tracked' = Tracked \ {b} /\ RatingShown' = RatingShown
        BY <4>2, <4>3, <4>6 DEF Board!Next, Board!Cancelled
      <4>. QED
        BY <1>a, <1>b, <4>3, <4>4, <4>5, <4>6, ShownPopped DEF RatedBy
    <3>2. CASE ~OnStack(net[s].view)
      BY <2>6, <3>2, <1>c DEF RideCancelled
    <3>. QED
      BY <3>1, <3>2
  <2>7. CASE CancelAnswered(s) \/ RatingAnswered(s)
    BY <2>7, <1>c, <1>g DEF CancelAnswered, RatingAnswered, Board!Next
  <2>. QED
    BY <1>8, <2>1, <2>2, <2>3, <2>4, <2>5, <2>6, <2>7 DEF Handle
<1>9. ASSUME NEW s \in Slots, Serve(s)
      PROVE  Board!Next \/ UNCHANGED Board!vars
  <2>1. CASE ServeBooking(s)
    BY <2>1, <1>f DEF ServeBooking, Board!Follows
  <2>2. CASE ServeStatus(s) \/ ServeOther(s)
    BY <2>2, <1>c DEF ServeStatus, ServeOther
  <2>3. CASE ServeCancel(s)
    <3>1. net[s].bk \in Bookings
      BY <2>3, <1>b DEF ServeCancel, CallOK
    <3>. QED
      BY <2>3, <3>1, <1>c, <1>f DEF ServeCancel, Board!Follows
  <2>. QED
    BY <1>9, <2>1, <2>2, <2>3 DEF Serve
<1>10. ASSUME NEW s \in Slots, Lose(s)
       PROVE  UNCHANGED Board!vars
  BY <1>10, <1>c DEF Lose
<1>11. ASSUME NEW b \in Bookings, DriverActs(b)
       PROVE  Board!Next
  <2>1. PICK new : /\ new \in Board!Follows(status[b])
                   /\ status' = [status EXCEPT ![b] = new]
    BY <1>11 DEF DriverActs, Board!Follows
  <2>. QED
    BY <1>11, <2>1, <1>f DEF DriverActs
<1>12. CASE UNCHANGED vars
  BY <1>12, <1>c DEF vars
<1>. QED
  BY <1>1, <1>2, <1>3, <1>4, <1>5, <1>6, <1>7, <1>8, <1>9, <1>10, <1>11, <1>12
     DEF Next, User

(* Booking implements RideBoard: what the user sees of a ride comes and    *)
(* goes only as the board allows, whatever the order of answers, the       *)
(* losses and the windows and screens left behind.                         *)
THEOREM ImplementsBoard == Spec => ImplementsRideBoard
<1>1. TypeOK /\ IInv /\ IInv' /\ RInv /\ [Next]_vars => [Board!Next]_(Board!vars)
  BY BoardNext
<1>. QED
  BY <1>1, BoardInit, TypeCorrect, Inductive, Refined, PTL
     DEF Spec, ImplementsRideBoard, Board!Spec
=============================================================================
