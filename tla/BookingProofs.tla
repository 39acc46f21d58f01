--------------------------- MODULE BookingProofs ---------------------------
(***************************************************************************)
(* The safety of Booking for every number of bookings, screens, HomeVC     *)
(* instances and requests in flight.                                       *)
(***************************************************************************)
EXTENDS Booking, SequenceTheorems, TLAPS

USE BookingAssumption

-----------------------------------------------------------------------------
(* What the ways of changing the navigation stack do to it.                *)
LEMMA PushLemma ==
  ASSUME stack \in Seq(Screens), NEW x \in Screens, stack' = Append(stack, x)
  PROVE  /\ stack' \in Seq(Screens)
         /\ Len(stack') = Len(stack) + 1
         /\ \A i \in 1 .. Len(stack) : stack'[i] = stack[i]
         /\ stack'[Len(stack) + 1] = x
OBVIOUS

LEMMA FrontLemma ==
  ASSUME NEW S, NEW t \in Seq(S), t # <<>>
  PROVE  /\ SubSeq(t, 1, Len(t) - 1) \in Seq(S)
         /\ Len(SubSeq(t, 1, Len(t) - 1)) = Len(t) - 1
         /\ \A i \in 1 .. Len(t) - 1 : SubSeq(t, 1, Len(t) - 1)[i] = t[i]
<1>. DEFINE n == Len(t) - 1
<1>1. n \in Nat /\ \A i \in 1 .. n : t[i] \in S
  OBVIOUS
<1>. HIDE DEF n
<1>2. /\ SubSeq(t, 1, n) \in Seq(S)
      /\ Len(SubSeq(t, 1, n)) = IF 1 <= n THEN n - 1 + 1 ELSE 0
      /\ \A i \in 1 .. n - 1 + 1 : SubSeq(t, 1, n)[i] = t[1 + i - 1]
  BY <1>1, SubSeqProperties
<1>3. /\ SubSeq(t, 1, n) \in Seq(S)
      /\ Len(SubSeq(t, 1, n)) = n
      /\ \A i \in 1 .. n : SubSeq(t, 1, n)[i] = t[i]
  <2>1. n - 1 + 1 = n /\ \A i \in 1 .. n : 1 + i - 1 = i
    BY <1>1
  <2>2. (IF 1 <= n THEN n - 1 + 1 ELSE 0) = n
    BY <1>1
  <2>. QED
    BY <1>2, <2>1, <2>2, Zenon
<1>. QED
  BY <1>3, Zenon DEF n

LEMMA PopLemma ==
  ASSUME stack \in Seq(Screens), stack # <<>>, Pop
  PROVE  /\ stack' \in Seq(Screens)
         /\ Len(stack) \in Nat \ {0}
         /\ Len(stack') = Len(stack) - 1
         /\ \A i \in 1 .. Len(stack) - 1 : stack'[i] = stack[i]
BY FrontLemma DEF Pop

LEMMA TopLemma ==
  ASSUME stack \in Seq(Screens), NEW vc, TopIs(vc)
  PROVE  /\ stack # <<>>
         /\ Len(stack) \in 1 .. Len(stack)
         /\ Top \in Screens
         /\ Top = stack[Len(stack)]
         /\ Top.vc = vc
BY DEF TopIs, Top

LEMMA OnStackLemma ==
  ASSUME stack \in Seq(Screens), NEW v, OnStack(v)
  PROVE  /\ stack # <<>>
         /\ \E i \in 1 .. Len(stack) : stack[i].vc = "direction" /\ stack[i].view = v
BY DEF OnStack

-----------------------------------------------------------------------------
(* What a slot can hold.                                                   *)
LEMMA CallType ==
  ASSUME NEW kind \in Kinds, NEW h \in 0 .. MaxHomes,
         NEW v \in AnyView, NEW b \in AnyBooking,
         kind \in HomeKinds => h \in Homes,
         kind \in RideKinds => v \in Views
  PROVE  Call(kind, h, v, b) \in Calls
BY DEF Call, Calls, Answers

LEMMA SlotType ==
  ASSUME TypeOK, NEW s \in Slots, NEW call \in Calls, Becomes(s, call)
  PROVE  net' \in [Slots -> Calls]
BY DEF TypeOK, Becomes

LEMMA FreeType ==
  ASSUME TypeOK, NEW s \in Slots, Free(s)
  PROVE  net' \in [Slots -> Calls]
<1>1. Idle \in Calls
  BY CallType DEF Idle, Kinds, HomeKinds, RideKinds, AnyView, AnyBooking
<1>. QED
  BY <1>1 DEF TypeOK, Free

LEMMA AnswerType ==
  ASSUME TypeOK, NEW s \in Slots, NEW a \in Answers, Answer(s, a)
  PROVE  net' \in [Slots -> Calls]
BY DEF TypeOK, Answer, Calls

LEMMA StartType ==
  ASSUME TypeOK, NEW call \in Calls, Start(call)
  PROVE  net' \in [Slots -> Calls]
BY SlotType DEF Start
-----------------------------------------------------------------------------
(* Every variable keeps its type: see TypeOK of Booking.                   *)
THEOREM TypeCorrect == Spec => []TypeOK
<1>1. Init => TypeOK
  BY CallType DEF Init, TypeOK, Status, Homes, NewHome, HomeFields, AnyBooking,
                  Idle, Kinds, HomeKinds, RideKinds, AnyView
<1>2. TypeOK /\ [Next]_vars => TypeOK'
  <2>. SUFFICES ASSUME TypeOK, [Next]_vars
                PROVE  TypeOK'
    OBVIOUS
  <2>. USE DEF AnyBooking, AnyView
  <2>a. cur \in Homes /\ cur \in 0 .. MaxHomes
    BY DEF TypeOK, Homes
  <2>b. /\ \A s \in Slots : net[s] \in Calls
        /\ \A h \in Homes : home[h] \in HomeFields
        /\ \A v \in Views : ride[v] \in AnyBooking
        /\ \A b \in Bookings : status[b] \in Status
    BY DEF TypeOK
  <2>17. CASE TapMarker \/ DismissSheet
    <3>1. \E up \in BOOLEAN : home' = [home EXCEPT ![cur].sheet = up]
      BY <2>17 DEF TapMarker, DismissSheet
    <3>2. home' \in [Homes -> HomeFields]
      BY <2>a, <3>1 DEF TypeOK, HomeFields
    <3>. QED
      BY <2>17, <3>2 DEF TapMarker, DismissSheet, TypeOK
  <2>1. CASE ConfirmDriver
    <3>1. net' \in [Slots -> Calls]
      BY <2>1, <2>a, CallType, StartType DEF ConfirmDriver, Kinds, HomeKinds, RideKinds
    <3>2. \E f \in HomeFields : home' = [home EXCEPT ![cur] = f]
      <4>1. [home[cur] EXCEPT !.sheet = FALSE, !.table = TRUE] \in HomeFields
        BY <2>a, <2>b DEF HomeFields
      <4>2. home' = [home EXCEPT ![cur] = [home[cur] EXCEPT !.sheet = FALSE, !.table = TRUE]]
        BY <2>1 DEF ConfirmDriver
      <4>. QED
        BY <4>1, <4>2
    <3>3. home' \in [Homes -> HomeFields]
      BY <3>2, <2>a DEF TypeOK
    <3>. QED
      BY <2>1, <3>1, <3>3 DEF ConfirmDriver, TypeOK
  <2>2. CASE SelectVehicle
    <3>1. net' \in [Slots -> Calls]
      BY <2>2, <2>a, CallType, StartType DEF SelectVehicle, Kinds, HomeKinds, RideKinds
    <3>2. [home[cur] EXCEPT !.table = FALSE] \in HomeFields
      BY <2>a, <2>b DEF HomeFields
    <3>3. home' = [home EXCEPT ![cur] = [home[cur] EXCEPT !.table = FALSE]]
      BY <2>2 DEF SelectVehicle
    <3>4. home' \in [Homes -> HomeFields]
      BY <3>2, <3>3, <2>a DEF TypeOK
    <3>. QED
      BY <2>2, <3>1, <3>4 DEF SelectVehicle, TypeOK
  <2>3. CASE PressCancelRide
    <3>1. Screen("cancel", NoView, Top.bk) \in Screens
      BY <2>3, TopLemma DEF PressCancelRide, TypeOK, Screen, Screens
    <3>2. stack' \in Seq(Screens)
      BY <2>3, <3>1, PushLemma DEF PressCancelRide, Push, TypeOK
    <3>. QED
      BY <2>3, <3>2 DEF PressCancelRide, TypeOK
  <2>4. CASE BackFromCancel
    BY <2>4, PopLemma, TopLemma DEF BackFromCancel, TypeOK
  <2>5. CASE SubmitCancel
    <3>1. Top.bk \in AnyBooking
      BY <2>5, TopLemma DEF SubmitCancel, TypeOK, Screens
    <3>2. net' \in [Slots -> Calls]
      BY <2>5, <3>1, CallType, StartType DEF SubmitCancel, Kinds, HomeKinds, RideKinds
    <3>. QED
      BY <2>5, <3>2 DEF SubmitCancel, TypeOK
  <2>6. ASSUME MakeRoot
        PROVE  homes' \subseteq Homes /\ cur' \in homes' /\ stack' \in Seq(Screens)
    BY <2>6 DEF MakeRoot, TypeOK, Homes
  <2>7. CASE SkipFeedback
    BY <2>7, <2>6 DEF SkipFeedback, TypeOK
  <2>8. CASE SubmitFeedback
    <3>1. net' \in [Slots -> Calls]
      BY <2>8, CallType, StartType DEF SubmitFeedback, Kinds, HomeKinds, RideKinds
    <3>. QED
      BY <2>8, <3>1 DEF SubmitFeedback, TypeOK
  <2>9. ASSUME NEW h \in Homes, HomeForeground(h)
        PROVE  TypeOK'
    <3>1. h \in 0 .. MaxHomes /\ home[h].bk \in AnyBooking
      BY <2>b DEF Homes, HomeFields
    <3>2. net' \in [Slots -> Calls]
      BY <2>9, <3>1, CallType, StartType DEF HomeForeground, Kinds, HomeKinds, RideKinds
    <3>. QED
      BY <2>9, <3>2 DEF HomeForeground, TypeOK
  <2>10. ASSUME NEW v \in Views, RideForeground(v)
         PROVE  TypeOK'
    <3>1. net' \in [Slots -> Calls]
      BY <2>10, <2>b, CallType, StartType DEF RideForeground, Kinds, HomeKinds, RideKinds
    <3>. QED
      BY <2>10, <3>1 DEF RideForeground, TypeOK
  <2>11. CASE Relaunch
    <3>1. Idle \in Calls
      BY CallType DEF Idle, Kinds, HomeKinds, RideKinds
    <3>. QED
      BY <2>11, <3>1 DEF Relaunch, TypeOK, Homes, NewHome, HomeFields
  <2>12. ASSUME NEW s \in Slots, Handle(s)
         PROVE  TypeOK'
    <3>a. net[s] \in Calls
      BY <2>b
    <3>b. Free(s) => net' \in [Slots -> Calls]
      BY FreeType
    <3>1. CASE GeocodeAnswered(s)
      <4>0. net[s].home \in Homes
        BY <3>1, <3>a DEF GeocodeAnswered, Calls, HomeKinds
      <4>2. PICK h \in Homes : h = net[s].home
        BY <4>0
      <4>3. home' = [home EXCEPT ![h].addr = TRUE] \/ home' = home
        BY <3>1, <4>2 DEF GeocodeAnswered
      <4>4. [home[h] EXCEPT !.addr = TRUE] \in HomeFields
        BY <2>b DEF HomeFields
      <4>1. home' \in [Homes -> HomeFields]
        BY <4>3, <4>4 DEF TypeOK
      <4>. QED
        BY <3>1, <3>b, <4>1 DEF GeocodeAnswered, TypeOK
    <3>2. CASE BookingRequest(s)
      <4>1. Call("book", net[s].home, NoView, NoBooking) \in Calls
        BY <3>2, <3>a, CallType DEF BookingRequest, Kinds, HomeKinds, RideKinds, Calls
      <4>. QED
        BY <3>2, <3>b, <4>1, SlotType DEF BookingRequest, TypeOK
    <3>3. CASE BookingAnswered(s)
      <4>1. Call("check", net[s].home, NoView, net[s].bk) \in Calls
        BY <3>3, <3>a, CallType DEF BookingAnswered, Kinds, HomeKinds, RideKinds, Calls
      <4>2. net' \in [Slots -> Calls]
        BY <3>3, <3>b, <4>1, SlotType DEF BookingAnswered
      <4>3. PICK h \in Homes, b \in AnyBooking : h = net[s].home /\ b = net[s].bk
        BY <3>3, <3>a DEF BookingAnswered, Calls, HomeKinds
      <4>4. [home[h] EXCEPT !.bk = b, !.mixed = @ \/ ChecksAnother(h, b)] \in HomeFields
        BY <2>b DEF HomeFields, ChecksAnother
      <4>5. \/ home' = home
            \/ home' = [home EXCEPT ![h].bk = b, ![h].mixed = @ \/ ChecksAnother(h, b)]
        BY <3>3, <4>3 DEF BookingAnswered
      <4>6. home' \in [Homes -> HomeFields]
        BY <4>4, <4>5 DEF TypeOK
      <4>. QED
        BY <3>3, <4>2, <4>6 DEF BookingAnswered, TypeOK
    <3>4. CASE StatusPending(s)
      <4>1. Call("check", net[s].home, NoView, home[net[s].home].bk) \in Calls
        BY <3>4, <3>a, <2>b, CallType DEF StatusPending, Calls, Kinds, HomeKinds, RideKinds, HomeFields, Homes
      <4>2. net' \in [Slots -> Calls]
        BY <3>4, <4>1, SlotType DEF StatusPending
      <4>. QED
        BY <3>4, <4>2 DEF StatusPending, TypeOK
    <3>5. CASE StatusRefused(s)
      BY <3>5, <3>b DEF StatusRefused, TypeOK
    <3>6. CASE StatusAccepted(s)
      <4>1. PICK v \in Views \ views :
              /\ views' = views \union {v}
              /\ ride' = [ride EXCEPT ![v] = home[cur].bk]
              /\ Push(Screen("direction", v, home[cur].bk))
              /\ Becomes(s, Call("route", 0, v, NoBooking))
        BY <3>6 DEF StatusAccepted, ShowRide, AskRoute
      <4>2. home[cur].bk \in AnyBooking
        BY <2>a, <2>b DEF HomeFields
      <4>3. Screen("direction", v, home[cur].bk) \in Screens
        BY <4>2 DEF Screen, Screens
      <4>4. stack' \in Seq(Screens)
        BY <4>1, <4>3, PushLemma DEF Push, TypeOK
      <4>5. net' \in [Slots -> Calls]
        BY <4>1, CallType, SlotType DEF Kinds, HomeKinds, RideKinds
      <4>. QED
        BY <3>6, <4>1, <4>2, <4>4, <4>5 DEF StatusAccepted, ShowRide, AskRoute, TypeOK
    <3>7. CASE RouteAnswered(s)
      <4>1. LET v == net[s].view IN Call("ride", 0, v, ride[v]) \in Calls
        BY <3>7, <3>a, <2>b, CallType DEF RouteAnswered, Calls, Kinds, HomeKinds, RideKinds
      <4>2. net' \in [Slots -> Calls]
        BY <3>7, <4>1, <3>b, SlotType DEF RouteAnswered
      <4>. QED
        BY <3>7, <4>2 DEF RouteAnswered, TypeOK
    <3>8. CASE RideGoesOn(s)
      <4>1. LET v == net[s].view IN Call("ride", 0, v, ride[v]) \in Calls
        BY <3>8, <3>a, <2>b, CallType DEF RideGoesOn, Calls, Kinds, HomeKinds, RideKinds
      <4>2. net' \in [Slots -> Calls]
        BY <3>8, <4>1, SlotType DEF RideGoesOn
      <4>. QED
        BY <3>8, <4>2 DEF RideGoesOn, TypeOK
    <3>9. CASE RideCompleted(s)
      <4>1. Screen("feedback", NoView, NoBooking) \in Screens
        BY DEF Screen, Screens
      <4>2. stack' \in Seq(Screens)
        BY <3>9, <4>1, PushLemma DEF RideCompleted, Push, TypeOK
      <4>. QED
        BY <3>9, <3>b, <4>2 DEF RideCompleted, TypeOK
    <3>10. CASE RideCancelled(s)
      <4>1. stack' \in Seq(Screens)
        BY <3>10, PopLemma, OnStackLemma DEF RideCancelled, TypeOK
      <4>. QED
        BY <3>10, <3>b, <4>1 DEF RideCancelled, TypeOK
    <3>11. CASE RideUnknown(s)
      BY <3>11, <3>b DEF RideUnknown, TypeOK
    <3>12. CASE CancelAnswered(s)
      BY <3>12, <3>b, <2>6 DEF CancelAnswered, TypeOK
    <3>13. CASE RatingAnswered(s)
      BY <3>13, <3>b, <2>6 DEF RatingAnswered, TypeOK
    <3>. QED
      BY <2>12, <3>1, <3>2, <3>3, <3>4, <3>5, <3>6, <3>7, <3>8, <3>9, <3>10,
         <3>11, <3>12, <3>13 DEF Handle
  <2>13. ASSUME NEW s \in Slots, Serve(s)
         PROVE  TypeOK'
    <3>a. net[s] \in Calls
      BY <2>b
    <3>1. CASE ServeBooking(s)
      BY <3>1, <3>a DEF ServeBooking, TypeOK, Calls, Answers, Status
    <3>2. CASE ServeStatus(s)
      <4>1. (IF net[s].bk = NoBooking THEN "failure" ELSE status[net[s].bk]) \in Answers
        BY <3>a, <2>b DEF Calls, Answers
      <4>. QED
        BY <3>2, <4>1, AnswerType DEF ServeStatus, TypeOK
    <3>3. CASE ServeCancel(s)
      <4>1. net' \in [Slots -> Calls]
        BY <3>3, AnswerType DEF ServeCancel, Answers
      <4>2. status' \in [Bookings -> Status]
        BY <3>3 DEF ServeCancel, TypeOK, Status
      <4>. QED
        BY <3>3, <4>1, <4>2 DEF ServeCancel, TypeOK
    <3>4. CASE ServeOther(s)
      BY <3>4, AnswerType DEF ServeOther, TypeOK, Answers
    <3>. QED
      BY <2>13, <3>1, <3>2, <3>3, <3>4 DEF Serve
  <2>14. ASSUME NEW s \in Slots, Lose(s)
         PROVE  TypeOK'
    BY <2>14, AnswerType DEF Lose, TypeOK, Answers
  <2>15. ASSUME NEW b \in Bookings, DriverActs(b)
         PROVE  TypeOK'
    BY <2>15 DEF DriverActs, TypeOK
  <2>16. CASE UNCHANGED vars
    BY <2>16 DEF vars, TypeOK
  <2>. QED
    BY <2>1, <2>2, <2>3, <2>4, <2>5, <2>7, <2>8, <2>9, <2>10, <2>11, <2>12,
       <2>13, <2>14, <2>15, <2>16, <2>17 DEF Next, User
<1>. QED
  BY <1>1, <1>2, PTL DEF Spec
-----------------------------------------------------------------------------
(* What a step must leave alone for the facts about a call or a screen to  *)
(* stay true: the server takes nothing back, a DirectionVC in memory keeps *)
(* its booking and a HomeVC its id.                                        *)
ServerKeeps ==
  \A b \in Bookings :
    /\ status[b] \in Answered => status'[b] \in Answered
    /\ status[b] = "completed" => status'[b] = "completed"

Keeps ==
  /\ ServerKeeps
  /\ views \subseteq views'
  /\ \A v \in views : ride'[v] = ride[v]

HomesKeep == \A h \in Homes : home'[h].bk = home[h].bk /\ home'[h].mixed = home[h].mixed

LEMMA CallKept ==
  ASSUME NEW c \in Calls, CallOK(c), Keeps, HomesKeep
  PROVE  CallOK(c)'
<1>1. c.kind = "check" => c.home \in Homes
  BY DEF Calls, HomeKinds
<1>2. c.kind = "check" => /\ home'[c.home].bk = home[c.home].bk
                          /\ home'[c.home].mixed = home[c.home].mixed
  BY <1>1 DEF HomesKeep
<1>3. c.kind \in RideKinds => c.view \in views' /\ ride'[c.view] = ride[c.view]
  BY DEF CallOK, Keeps
<1>4. c.kind \in {"check", "ride"} /\ c.ans \in Answered =>
        /\ c.bk \in Bookings /\ status'[c.bk] \in Answered
        /\ c.kind = "ride" /\ c.ans = "completed" => status'[c.bk] = "completed"
  BY DEF CallOK, Keeps, ServerKeeps
<1>5. "completed" \in Answered /\ "ride" \in RideKinds
  BY DEF Answered, RideKinds
<1>. QED
  BY <1>2, <1>3, <1>4, <1>5 DEF CallOK

(* The calls after a step that fills, answers or empties slot s.           *)
LEMMA CallsKept ==
  ASSUME TypeOK, \A t \in Slots : CallOK(net[t]), Keeps, HomesKeep,
         NEW s \in Slots, NEW c \in Calls, CallOK(c)',
         net' = [net EXCEPT ![s] = c]
  PROVE  \A t \in Slots : CallOK(net[t])'
<1>. SUFFICES ASSUME NEW t \in Slots
              PROVE  CallOK(net[t])'
  OBVIOUS
<1>0. net[t] \in Calls
  BY DEF TypeOK
<1>1. CASE t = s
  <2>1. net'[t] = c
    BY <1>1 DEF TypeOK
  <2>. QED
    BY <2>1 DEF CallOK
<1>2. CASE t # s
  <2>1. net'[t] = net[t]
    BY <1>2 DEF TypeOK
  <2>2. PICK d \in Calls : d = net[t]
    BY <1>0
  <2>3. CallOK(d)'
    BY <2>2, CallKept
  <2>. QED
    BY <2>1, <2>2, <2>3 DEF CallOK
<1>. QED
  BY <1>1, <1>2

LEMMA IdleOK ==
  /\ Idle \in Calls
  /\ CallOK(Idle)'
<1>1. Idle \in Calls
  BY CallType DEF Idle, Kinds, HomeKinds, RideKinds, AnyView, AnyBooking
<1>. QED
  BY <1>1 DEF Idle, Call, CallOK, RideKinds

LEMMA CallsFreed ==
  ASSUME TypeOK, \A t \in Slots : CallOK(net[t]), Keeps, HomesKeep,
         NEW s \in Slots, Free(s)
  PROVE  \A t \in Slots : CallOK(net[t])'
<1>1. net' = [net EXCEPT ![s] = Idle]
  BY DEF Free
<1>. QED
  BY <1>1, IdleOK, CallsKept

LEMMA CallsUnchanged ==
  ASSUME TypeOK, \A t \in Slots : CallOK(net[t]), Keeps, HomesKeep, net' = net
  PROVE  \A t \in Slots : CallOK(net[t])'
<1>. SUFFICES ASSUME NEW t \in Slots
              PROVE  CallOK(net[t])'
  OBVIOUS
<1>1. PICK d \in Calls : d = net[t]
  BY DEF TypeOK
<1>2. CallOK(d)'
  BY <1>1, CallKept
<1>. QED
  BY <1>1, <1>2 DEF CallOK
-----------------------------------------------------------------------------
(* The navigation stack after a step that leaves it, pushes, pops or       *)
(* replaces the window.                                                    *)
LEMMA ScreenKept ==
  ASSUME TypeOK, NEW x, ScreenOK(x), Keeps, HomesKeep, cur' = cur
  PROVE  ScreenOK(x)'
<1>1. cur \in Homes
  BY DEF TypeOK
<1>. QED
  BY <1>1 DEF ScreenOK, Keeps, ServerKeeps, HomesKeep

LEMMA StackUnchanged ==
  ASSUME TypeOK, StackOK, Keeps, HomesKeep, cur' = cur, stack' = stack
  PROVE  StackOK'
<1>1. \A i \in 1 .. Len(stack) : ScreenOK(stack[i])'
  <2>. SUFFICES ASSUME NEW i \in 1 .. Len(stack)
                PROVE  ScreenOK(stack[i])'
    OBVIOUS
  <2>1. PICK x \in Screens : x = stack[i]
    BY DEF TypeOK
  <2>2. ScreenOK(x)'
    BY <2>1, ScreenKept DEF StackOK
  <2>. QED
    BY <2>1, <2>2 DEF ScreenOK
<1>2. CancelAboveItsRide'
  BY DEF StackOK, CancelAboveItsRide
<1>3. FeedbackAfterCompletion'
  BY DEF StackOK, FeedbackAfterCompletion, Keeps, ServerKeeps
<1>. QED
  BY <1>1, <1>2, <1>3 DEF StackOK

LEMMA StackPopped ==
  ASSUME TypeOK, StackOK, Keeps, HomesKeep, cur' = cur, stack # <<>>, Pop
  PROVE  StackOK'
<1>0. /\ Len(stack) \in Nat \ {0}
      /\ Len(stack') = Len(stack) - 1
      /\ \A i \in 1 .. Len(stack) - 1 : stack'[i] = stack[i]
  BY PopLemma DEF TypeOK
<1>1. (\A i \in 1 .. Len(stack) : ScreenOK(stack[i]))'
  <2>. SUFFICES ASSUME NEW i \in 1 .. Len(stack')
                PROVE  ScreenOK(stack[i])'
    OBVIOUS
  <2>1. PICK x \in Screens : x = stack[i] /\ x = stack'[i]
    BY <1>0 DEF TypeOK
  <2>2. ScreenOK(x)'
    BY <2>1, <1>0, ScreenKept DEF StackOK
  <2>. QED
    BY <2>1, <2>2 DEF ScreenOK
<1>2. CancelAboveItsRide'
  BY <1>0 DEF StackOK, CancelAboveItsRide
<1>3. FeedbackAfterCompletion'
  BY <1>0 DEF StackOK, FeedbackAfterCompletion, Keeps, ServerKeeps
<1>. QED
  BY <1>1, <1>2, <1>3 DEF StackOK

LEMMA StackPushed ==
  ASSUME TypeOK, StackOK, Keeps, HomesKeep, cur' = cur,
         NEW x \in Screens, Push(x), ScreenOK(x)',
         x.vc = "cancel" => TopIs("direction") /\ Top.bk = x.bk,
         x.vc = "feedback" =>
           \E j \in 1 .. Len(stack) : /\ stack[j].vc = "direction"
                                      /\ stack[j].bk \in Bookings
                                      /\ status[stack[j].bk] = "completed"
  PROVE  StackOK'
<1>0. /\ Len(stack) \in Nat
      /\ Len(stack') = Len(stack) + 1
      /\ \A i \in 1 .. Len(stack) : stack'[i] = stack[i]
      /\ stack'[Len(stack) + 1] = x
  BY PushLemma DEF TypeOK, Push
<1>1. (\A i \in 1 .. Len(stack) : ScreenOK(stack[i]))'
  <2>. SUFFICES ASSUME NEW i \in 1 .. Len(stack')
                PROVE  ScreenOK(stack[i])'
    OBVIOUS
  <2>1. CASE i = Len(stack) + 1
    <3>1. x = stack'[i]
      BY <1>0, <2>1
    <3>. QED
      BY <3>1 DEF ScreenOK
  <2>2. CASE i \in 1 .. Len(stack)
    <3>1. PICK y \in Screens : y = stack[i] /\ y = stack'[i]
      BY <1>0, <2>2 DEF TypeOK
    <3>2. ScreenOK(y)'
      BY <3>1, <2>2, ScreenKept DEF StackOK
    <3>. QED
      BY <3>1, <3>2 DEF ScreenOK
  <2>. QED
    BY <2>1, <2>2, <1>0
<1>2. CancelAboveItsRide'
  <2>1. x.vc = "cancel" => Len(stack) # 0 /\ stack[Len(stack)].vc = "direction"
                                         /\ stack[Len(stack)].bk = x.bk
    BY DEF TopIs, Top, TypeOK
  <2>. QED
    BY <1>0, <2>1 DEF StackOK, CancelAboveItsRide
<1>3. FeedbackAfterCompletion'
  BY <1>0 DEF StackOK, FeedbackAfterCompletion, Keeps, ServerKeeps
<1>. QED
  BY <1>1, <1>2, <1>3 DEF StackOK

LEMMA StackEmptied ==
  ASSUME stack' = <<>>
  PROVE  StackOK'
BY DEF StackOK, CancelAboveItsRide, FeedbackAfterCompletion
(* A status check is untouched by what happens to other HomeVCs.           *)
LEMMA CheckKept ==
  ASSUME NEW d \in Calls, d.kind = "check", d.home \in Homes, CallOK(d),
         home'[d.home] = home[d.home], UNCHANGED status
  PROVE  CallOK(d)'
BY DEF CallOK, RideKinds

-----------------------------------------------------------------------------
(* The invariant is inductive.  Its safety consequences are the theorems   *)
(* at the end of the module.                                               *)
LEMMA InitIInv == Init => IInv
<1>. SUFFICES ASSUME Init
              PROVE  IInv
  OBVIOUS
<1>1. TypeOK
  BY CallType DEF Init, TypeOK, Status, Homes, NewHome, HomeFields, AnyBooking,
                  Idle, Kinds, HomeKinds, RideKinds, AnyView
<1>2. \A s \in Slots : CallOK(net[s])
  BY DEF Init, Idle, Call, CallOK, RideKinds
<1>3. StackOK
  BY DEF Init, StackOK, CancelAboveItsRide, FeedbackAfterCompletion
<1>. QED
  BY <1>1, <1>2, <1>3 DEF IInv

LEMMA NextIInv ==
  ASSUME IInv, TypeOK', [Next]_vars
  PROVE  IInv'
<1>. USE DEF AnyBooking, AnyView
<1>a. /\ TypeOK
      /\ \A t \in Slots : CallOK(net[t])
      /\ StackOK
      /\ cur \in Homes
  BY DEF IInv, TypeOK
<1>b. ASSUME UNCHANGED <<status, ride, views>>
      PROVE  Keeps
  BY <1>b DEF Keeps, ServerKeeps
<1>c. UNCHANGED home => HomesKeep
  BY DEF HomesKeep
<1>. SUFFICES /\ (\A t \in Slots : CallOK(net[t]))'
              /\ StackOK'
  BY DEF IInv
<1>d. ASSUME NEW call \in Calls, Start(call), CallOK(call)',
             UNCHANGED <<status, cur, ride, views, stack>>, HomesKeep
      PROVE  (\A t \in Slots : CallOK(net[t]))' /\ StackOK'
  <2>1. PICK s \in Slots : net' = [net EXCEPT ![s] = call]
    BY <1>d DEF Start, Becomes
  <2>2. Keeps
    BY <1>b, <1>d
  <2>3. (\A t \in Slots : CallOK(net[t]))'
    BY <1>a, <1>d, <2>1, <2>2, CallsKept
  <2>. QED
    BY <1>a, <1>d, <2>2, <2>3, StackUnchanged
<1>e. ASSUME NEW s \in Slots, NEW call \in Calls, CallOK(call)',
             net' = [net EXCEPT ![s] = call],
             UNCHANGED <<home, cur, ride, views, stack>>, ServerKeeps
      PROVE  (\A t \in Slots : CallOK(net[t]))' /\ StackOK'
  <2>1. Keeps /\ HomesKeep
    BY <1>e, <1>c DEF Keeps
  <2>2. (\A t \in Slots : CallOK(net[t]))'
    BY <1>a, <1>e, <2>1, CallsKept
  <2>. QED
    BY <1>a, <1>e, <2>1, <2>2, StackUnchanged
<1>f. ASSUME NEW s \in Slots, Free(s),
             UNCHANGED <<status, home, cur, ride, views, stack>>
      PROVE  (\A t \in Slots : CallOK(net[t]))' /\ StackOK'
  <2>1. Keeps /\ HomesKeep
    BY <1>f, <1>b, <1>c
  <2>. QED
    BY <1>a, <1>f, <2>1, CallsFreed, StackUnchanged
<1>17. CASE TapMarker \/ DismissSheet
  <2>1. HomesKeep
    BY <1>17, <1>a DEF TapMarker, DismissSheet, HomesKeep, TypeOK, HomeFields
  <2>2. Keeps
    BY <1>17, <1>b DEF TapMarker, DismissSheet
  <2>. QED
    BY <1>17, <1>a, <2>1, <2>2, CallsUnchanged, StackUnchanged
       DEF TapMarker, DismissSheet
<1>1. CASE ConfirmDriver
  <2>1. HomesKeep
    BY <1>1, <1>a DEF ConfirmDriver, HomesKeep, TypeOK, HomeFields
  <2>2. Call("geocode", cur, NoView, NoBooking) \in Calls
    BY <1>a, CallType DEF Kinds, HomeKinds, RideKinds, Homes
  <2>3. CallOK(Call("geocode", cur, NoView, NoBooking))'
    BY <1>1 DEF ConfirmDriver, CallOK, Call, RideKinds
  <2>. QED
    BY <1>1, <1>d, <2>1, <2>2, <2>3 DEF ConfirmDriver
<1>2. CASE SelectVehicle
  <2>1. HomesKeep
    BY <1>2, <1>a DEF SelectVehicle, HomesKeep, TypeOK, HomeFields
  <2>2. Call("delay", cur, NoView, NoBooking) \in Calls
    BY <1>a, CallType DEF Kinds, HomeKinds, RideKinds, Homes
  <2>3. CallOK(Call("delay", cur, NoView, NoBooking))'
    BY <1>2 DEF SelectVehicle, CallOK, Call, RideKinds
  <2>. QED
    BY <1>2, <1>d, <2>1, <2>2, <2>3 DEF SelectVehicle
<1>3. CASE PressCancelRide
  <2>1. Keeps /\ HomesKeep
    BY <1>3, <1>b, <1>c DEF PressCancelRide
  <2>2. PICK x \in Screens : x = Screen("cancel", NoView, Top.bk)
    BY <1>3, <1>a, TopLemma DEF PressCancelRide, TypeOK, Screen, Screens
  <2>3. ScreenOK(Top) /\ Top.vc = "direction"
    BY <1>3, <1>a, TopLemma DEF PressCancelRide, TypeOK, StackOK
  <2>4. ScreenOK(x)'
    BY <2>2, <2>3 DEF ScreenOK, Screen
  <2>5. StackOK'
    BY <1>3, <1>a, <2>1, <2>2, <2>4, StackPushed DEF PressCancelRide, Screen
  <2>. QED
    BY <1>3, <1>a, <2>1, <2>5, CallsUnchanged DEF PressCancelRide
<1>4. CASE BackFromCancel
  <2>1. Keeps /\ HomesKeep
    BY <1>4, <1>b, <1>c DEF BackFromCancel
  <2>2. stack # <<>>
    BY <1>4 DEF BackFromCancel, TopIs
  <2>. QED
    BY <1>4, <1>a, <2>1, <2>2, CallsUnchanged, StackPopped DEF BackFromCancel
<1>5. CASE SubmitCancel
  <2>1. ScreenOK(Top) /\ Top.vc = "cancel" /\ Top.bk \in AnyBooking
    BY <1>5, <1>a, TopLemma DEF SubmitCancel, TypeOK, StackOK, Screens
  <2>2. PICK b \in Bookings : b = Top.bk
    BY <2>1 DEF ScreenOK
  <2>3. Call("cancel", 0, NoView, b) \in Calls
    BY CallType DEF Kinds, HomeKinds, RideKinds
  <2>4. CallOK(Call("cancel", 0, NoView, b))'
    BY <1>5, <2>2 DEF SubmitCancel, CallOK, Call, RideKinds
  <2>. QED
    BY <1>5, <1>c, <1>d, <2>2, <2>3, <2>4 DEF SubmitCancel
<1>6. ASSUME MakeRoot
      PROVE  StackOK'
  BY <1>6, StackEmptied DEF MakeRoot
<1>7. CASE SkipFeedback
  BY <1>7, <1>a, <1>b, <1>c, <1>6, CallsUnchanged DEF SkipFeedback
<1>8. CASE SubmitFeedback
  <2>1. Call("rate", 0, NoView, NoBooking) \in Calls
    BY CallType DEF Kinds, HomeKinds, RideKinds
  <2>2. CallOK(Call("rate", 0, NoView, NoBooking))'
    BY <1>8 DEF SubmitFeedback, CallOK, Call, RideKinds
  <2>. QED
    BY <1>8, <1>c, <1>d, <2>1, <2>2 DEF SubmitFeedback
<1>9. ASSUME NEW h \in Homes, HomeForeground(h)
      PROVE  (\A t \in Slots : CallOK(net[t]))' /\ StackOK'
  <2>1. PICK b \in AnyBooking : b = home[h].bk
    BY <1>a DEF TypeOK, HomeFields
  <2>2. Call("check", h, NoView, b) \in Calls
    BY CallType DEF Kinds, HomeKinds, RideKinds, Homes
  <2>3. CallOK(Call("check", h, NoView, b))'
    BY <1>9, <2>1 DEF HomeForeground, CallOK, Call, RideKinds, Answered
  <2>. QED
    BY <1>9, <1>c, <1>d, <2>1, <2>2, <2>3 DEF HomeForeground
<1>10. ASSUME NEW v \in Views, RideForeground(v)
       PROVE  (\A t \in Slots : CallOK(net[t]))' /\ StackOK'
  <2>1. PICK b \in AnyBooking : b = ride[v]
    BY <1>a DEF TypeOK
  <2>2. Call("ride", 0, v, b) \in Calls
    BY CallType DEF Kinds, HomeKinds, RideKinds
  <2>3. CallOK(Call("ride", 0, v, b))'
    BY <1>10, <2>1 DEF RideForeground, CallOK, Call, RideKinds, Answered
  <2>. QED
    BY <1>10, <1>c, <1>d, <2>1, <2>2, <2>3 DEF RideForeground
<1>11. CASE Relaunch
  <2>1. StackOK'
    BY <1>11, StackEmptied DEF Relaunch
  <2>2. \A t \in Slots : net'[t] = Idle
    BY <1>11 DEF Relaunch
  <2>3. CallOK(Idle)'
    BY IdleOK
  <2>. QED
    BY <2>1, <2>2, <2>3 DEF CallOK
<1>12. ASSUME NEW s \in Slots, Handle(s)
       PROVE  (\A t \in Slots : CallOK(net[t]))' /\ StackOK'
  <2>a. PICK c \in Calls : c = net[s] /\ CallOK(c)
    BY <1>a DEF TypeOK
  <2>1. CASE GeocodeAnswered(s)
    <3>1. c.home \in Homes
      BY <2>1, <2>a DEF GeocodeAnswered, Calls, HomeKinds
    <3>2. PICK h \in Homes : h = c.home
      BY <3>1
    <3>3. home' = [home EXCEPT ![h].addr = TRUE] \/ home' = home
      BY <2>1, <2>a, <3>2 DEF GeocodeAnswered
    <3>4. HomesKeep
      BY <3>3, <1>a DEF HomesKeep, TypeOK, HomeFields
    <3>. QED
      BY <2>1, <1>a, <1>b, <3>4, CallsFreed, StackUnchanged DEF GeocodeAnswered
  <2>2. CASE BookingRequest(s)
    <3>1. CASE home[c.home].addr
      <4>1. Call("book", c.home, NoView, NoBooking) \in Calls
        BY <2>2, <2>a, CallType DEF BookingRequest, Calls, Kinds, HomeKinds, RideKinds
      <4>2. CallOK(Call("book", c.home, NoView, NoBooking))'
        BY DEF CallOK, Call, RideKinds
      <4>. QED
        BY <2>2, <2>a, <1>e, <3>1, <4>1, <4>2 DEF BookingRequest, Becomes, ServerKeeps
    <3>2. CASE ~home[c.home].addr
      BY <2>2, <2>a, <1>f, <3>2 DEF BookingRequest
    <3>. QED
      BY <3>1, <3>2
  <2>3. CASE BookingAnswered(s)
    <3>1. CASE c.ans = "Success"
      <4>1. /\ c.kind = "book" /\ c.home \in Homes /\ c.bk \in Bookings
        BY <2>3, <2>a, <3>1 DEF BookingAnswered, Calls, HomeKinds, CallOK
      <4>2. PICK h \in Homes, b \in Bookings : h = c.home /\ b = c.bk
        BY <4>1
      <4>3. /\ home' = [home EXCEPT ![h].bk = b, ![h].mixed = @ \/ ChecksAnother(h, b)]
            /\ net' = [net EXCEPT ![s] = Call("check", h, NoView, b)]
            /\ UNCHANGED <<status, homes, cur, ride, views, stack>>
        BY <2>3, <2>a, <3>1, <4>2 DEF BookingAnswered, Becomes
      <4>4. /\ home'[h].bk = b
            /\ home'[h].mixed = (home[h].mixed \/ ChecksAnother(h, b))
            /\ \A k \in Homes \ {h} : home'[k] = home[k]
        BY <4>3 DEF TypeOK, IInv, HomeFields
      <4>5. Keeps
        BY <4>3, <1>b
      <4>6. ASSUME NEW t \in Slots
            PROVE  CallOK(net[t])'
        <5>1. CASE t = s
          <6>1. net'[t] = Call("check", h, NoView, b)
            BY <4>3, <5>1, <1>a DEF TypeOK
          <6>. QED
            BY <6>1, <4>4, BookingAssumption DEF CallOK, Call, RideKinds, Answered
        <5>2. CASE t # s
          <6>1. PICK d \in Calls : d = net[t] /\ CallOK(d) /\ net'[t] = d
            BY <4>3, <5>2, <1>a DEF TypeOK
          <6>2. CASE d.kind = "check"
            <7>1. d.home \in Homes
              BY <6>2 DEF Calls, HomeKinds
            <7>2. CASE d.home = h
              <8>1. ~home'[h].mixed => d.bk \in {NoBooking, b}
                BY <6>1, <6>2, <7>2, <4>4 DEF ChecksAnother
              <8>. QED
                BY <6>1, <6>2, <7>2, <8>1, <4>4, <4>3, BookingAssumption
                   DEF CallOK, RideKinds
            <7>3. CASE d.home # h
              <8>1. home'[d.home] = home[d.home]
                BY <4>4, <7>1, <7>3
              <8>2. CallOK(d)'
                BY <4>3, <6>1, <6>2, <7>1, <8>1, CheckKept
              <8>. QED
                BY <6>1, <8>2
            <7>. QED
              BY <7>2, <7>3
          <6>3. CASE d.kind # "check"
            BY <6>1, <6>3, <4>3 DEF CallOK
          <6>. QED
            BY <6>2, <6>3
        <5>. QED
          BY <5>1, <5>2
      <4>7. StackOK'
        <5>1. home[cur].mixed => home'[cur].mixed
          BY <4>4, <1>a
        <5>2. \A i \in 1 .. Len(stack) : ScreenOK(stack[i])'
          <6>. SUFFICES ASSUME NEW i \in 1 .. Len(stack)
                        PROVE  ScreenOK(stack[i])'
            OBVIOUS
          <6>1. ScreenOK(stack[i])
            BY <1>a DEF StackOK
          <6>. QED
            BY <6>1, <5>1, <4>3 DEF ScreenOK
        <5>3. CancelAboveItsRide' /\ FeedbackAfterCompletion'
          BY <1>a, <4>3 DEF StackOK, CancelAboveItsRide, FeedbackAfterCompletion
        <5>. QED
          BY <4>3, <5>2, <5>3 DEF StackOK
      <4>. QED
        BY <4>6, <4>7
    <3>2. CASE c.ans # "Success"
      BY <2>3, <2>a, <3>2, <1>f DEF BookingAnswered
    <3>. QED
      BY <3>1, <3>2
  <2>4. CASE StatusPending(s)
    <3>1. c.kind = "check" /\ c.home \in Homes
      BY <2>4, <2>a DEF StatusPending, Calls, HomeKinds
    <3>2. PICK h \in Homes, b \in AnyBooking : h = c.home /\ b = home[h].bk
      BY <3>1, <1>a DEF TypeOK, HomeFields
    <3>3. Call("check", h, NoView, b) \in Calls
      BY CallType DEF Kinds, HomeKinds, RideKinds, Homes
    <3>4. CallOK(Call("check", h, NoView, b))'
      BY <2>4, <3>2 DEF StatusPending, CallOK, Call, RideKinds, Answered
    <3>. QED
      BY <2>4, <2>a, <3>2, <3>3, <3>4, <1>e DEF StatusPending, Becomes, ServerKeeps
  <2>5. CASE StatusRefused(s)
    BY <2>5, <1>f DEF StatusRefused
  <2>6. CASE StatusAccepted(s)
    <3>1. PICK v \in Views \ views :
            /\ views' = views \union {v}
            /\ ride' = [ride EXCEPT ![v] = home[cur].bk]
            /\ Push(Screen("direction", v, home[cur].bk))
            /\ Becomes(s, Call("route", 0, v, NoBooking))
      BY <2>6 DEF StatusAccepted, ShowRide, AskRoute
    <3>2. /\ c.kind = "check" /\ c.ans \in Answered /\ c.home = cur
          /\ UNCHANGED <<status, home, homes, cur>>
      BY <2>6, <2>a DEF StatusAccepted, ShowRide, AskRoute, OpensRide
    <3>3. PICK b \in AnyBooking : b = home[cur].bk
      BY <1>a DEF TypeOK, HomeFields
    <3>4. /\ b \in Bookings
          /\ home[cur].mixed \/ status[b] \in Answered
      BY <2>a, <3>2, <3>3, BookingAssumption DEF CallOK
    <3>5. Keeps /\ HomesKeep
      <4>1. \A w \in views : ride'[w] = ride[w]
        BY <3>1, <1>a DEF TypeOK
      <4>. QED
        BY <3>1, <3>2, <4>1 DEF Keeps, ServerKeeps, HomesKeep
    <3>6. ride'[v] = b
      BY <3>1, <3>3, <1>a DEF TypeOK
    <3>7. PICK x \in Screens : x = Screen("direction", v, b)
      BY DEF Screen, Screens
    <3>8. ScreenOK(x)'
      BY <3>1, <3>2, <3>4, <3>6, <3>7 DEF ScreenOK, Screen
    <3>9. StackOK'
      BY <1>a, <3>1, <3>2, <3>3, <3>5, <3>7, <3>8, StackPushed DEF Screen
    <3>10. PICK d \in Calls : d = Call("route", 0, v, NoBooking)
      BY CallType DEF Kinds, HomeKinds, RideKinds
    <3>11. CallOK(d)'
      BY <3>1, <3>10 DEF CallOK, Call, RideKinds
    <3>12. (\A t \in Slots : CallOK(net[t]))'
      BY <1>a, <3>1, <3>5, <3>10, <3>11, CallsKept DEF Becomes
    <3>. QED
      BY <3>9, <3>12
  <2>7. CASE RouteAnswered(s)
    <3>1. CASE c.ans = "Success"
      <4>1. c.view \in Views /\ c.view \in views
        BY <2>7, <2>a DEF RouteAnswered, Calls, RideKinds, CallOK
      <4>2. PICK v \in Views, b \in AnyBooking : v = c.view /\ b = ride[v] /\ v \in views
        BY <4>1, <1>a DEF TypeOK
      <4>3. Call("ride", 0, v, b) \in Calls
        BY CallType DEF Kinds, HomeKinds, RideKinds
      <4>4. CallOK(Call("ride", 0, v, b))'
        BY <2>7, <4>2 DEF RouteAnswered, CallOK, Call, RideKinds, Answered
      <4>. QED
        BY <2>7, <2>a, <3>1, <4>2, <4>3, <4>4, <1>e
           DEF RouteAnswered, Becomes, ServerKeeps
    <3>2. CASE c.ans # "Success"
      BY <2>7, <2>a, <3>2, <1>f DEF RouteAnswered
    <3>. QED
      BY <3>1, <3>2
  <2>8. CASE RideGoesOn(s)
    <3>1. c.view \in Views /\ c.view \in views
      BY <2>8, <2>a DEF RideGoesOn, Calls, RideKinds, CallOK
    <3>2. PICK v \in Views, b \in AnyBooking : v = c.view /\ b = ride[v] /\ v \in views
      BY <3>1, <1>a DEF TypeOK
    <3>3. Call("ride", 0, v, b) \in Calls
      BY CallType DEF Kinds, HomeKinds, RideKinds
    <3>4. CallOK(Call("ride", 0, v, b))'
      BY <2>8, <3>2 DEF RideGoesOn, CallOK, Call, RideKinds, Answered
    <3>. QED
      BY <2>8, <2>a, <3>2, <3>3, <3>4, <1>e DEF RideGoesOn, Becomes, ServerKeeps
  <2>9. CASE RideCompleted(s)
    <3>1. Keeps /\ HomesKeep
      BY <2>9, <1>b, <1>c DEF RideCompleted
    <3>2. CASE OnStack(c.view)
      <4>1. PICK x \in Screens : x = Screen("feedback", NoView, NoBooking)
        BY DEF Screen, Screens
      <4>2. PICK j \in 1 .. Len(stack) : stack[j].vc = "direction" /\ stack[j].view = c.view
        BY <3>2 DEF OnStack
      <4>3. /\ stack[j].bk \in Bookings /\ stack[j].bk = ride[c.view]
        BY <4>2, <1>a DEF StackOK, ScreenOK
      <4>4. c.bk = ride[c.view] /\ status[c.bk] = "completed"
        BY <2>9, <2>a DEF RideCompleted, CallOK
      <4>5. ScreenOK(x)'
        BY <4>1 DEF ScreenOK, Screen
      <4>6. StackOK'
        BY <2>9, <2>a, <1>a, <3>1, <3>2, <4>1, <4>2, <4>3, <4>4, <4>5, StackPushed
           DEF RideCompleted, Screen
      <4>. QED
        BY <2>9, <1>a, <3>1, <4>6, CallsFreed DEF RideCompleted
    <3>3. CASE ~OnStack(c.view)
      BY <2>9, <2>a, <3>3, <1>f DEF RideCompleted
    <3>. QED
      BY <3>2, <3>3
  <2>10. CASE RideCancelled(s)
    <3>1. Keeps /\ HomesKeep
      BY <2>10, <1>b, <1>c DEF RideCancelled
    <3>2. CASE OnStack(c.view)
      <4>1. stack # <<>>
        BY <3>2, <1>a, OnStackLemma DEF TypeOK
      <4>2. StackOK'
        BY <2>10, <2>a, <1>a, <3>1, <3>2, <4>1, StackPopped DEF RideCancelled
      <4>. QED
        BY <2>10, <1>a, <3>1, <4>2, CallsFreed DEF RideCancelled
    <3>3. CASE ~OnStack(c.view)
      BY <2>10, <2>a, <3>3, <1>f DEF RideCancelled
    <3>. QED
      BY <3>2, <3>3
  <2>11. CASE RideUnknown(s)
    BY <2>11, <1>f DEF RideUnknown
  <2>12. CASE CancelAnswered(s)
    <3>1. Keeps /\ HomesKeep
      BY <2>12, <1>b, <1>c DEF CancelAnswered
    <3>2. StackOK'
      BY <2>12, <1>a, <1>6, <3>1, StackUnchanged DEF CancelAnswered
    <3>. QED
      BY <2>12, <1>a, <3>1, <3>2, CallsFreed DEF CancelAnswered
  <2>13. CASE RatingAnswered(s)
    <3>1. Keeps /\ HomesKeep
      BY <2>13, <1>b, <1>c DEF RatingAnswered
    <3>2. StackOK'
      BY <2>13, <1>a, <1>6, <3>1, StackUnchanged DEF RatingAnswered
    <3>. QED
      BY <2>13, <1>a, <3>1, <3>2, CallsFreed DEF RatingAnswered
  <2>. QED
    BY <1>12, <2>1, <2>2, <2>3, <2>4, <2>5, <2>6, <2>7, <2>8, <2>9, <2>10,
       <2>11, <2>12, <2>13 DEF Handle
<1>13. ASSUME NEW s \in Slots, Serve(s)
       PROVE  (\A t \in Slots : CallOK(net[t]))' /\ StackOK'
  <2>a. PICK c \in Calls : c = net[s] /\ CallOK(c)
    BY <1>a DEF TypeOK
  <2>b. \A b \in Bookings : status[b] \in Status
    BY <1>a DEF TypeOK
  <2>1. CASE ServeBooking(s)
    <3>1. PICK b \in Bookings :
            /\ status[b] = "none"
            /\ status' = [status EXCEPT ![b] = "pending"]
            /\ net' = [net EXCEPT ![s].bk = b, ![s].ans = "Success"]
      BY <2>1 DEF ServeBooking
    <3>2. PICK d \in Calls : d = [c EXCEPT !.bk = b, !.ans = "Success"]
      BY <2>a DEF Calls, Answers
    <3>3. net' = [net EXCEPT ![s] = d]
      BY <3>1, <3>2, <2>a, <1>a DEF TypeOK
    <3>4. ServerKeeps
      BY <3>1, <1>a DEF ServerKeeps, TypeOK, Answered
    <3>5. d.kind = "book" /\ d.bk = b /\ d.ans = "Success"
      BY <2>1, <2>a, <3>2 DEF ServeBooking, Calls
    <3>6. CallOK(d)'
      BY <3>5 DEF CallOK, RideKinds
    <3>. QED
      BY <2>1, <3>3, <3>4, <3>6, <1>e DEF ServeBooking
  <2>2. CASE ServeStatus(s)
    <3>1. PICK a \in Answers :
             a = IF c.bk = NoBooking THEN "failure" ELSE status[c.bk]
      BY <2>a, <2>b DEF Calls, Answers
    <3>2. PICK d \in Calls : d = [c EXCEPT !.ans = a]
      BY <2>a DEF Calls
    <3>3. net' = [net EXCEPT ![s] = d]
      BY <2>2, <3>1, <3>2, <2>a, <1>a DEF ServeStatus, Answer, TypeOK
    <3>4. /\ d.kind = c.kind /\ d.home = c.home /\ d.view = c.view
          /\ d.bk = c.bk /\ d.ans = a /\ d.kind \in {"check", "ride"}
      BY <2>2, <2>a, <3>2 DEF ServeStatus, Calls
    <3>5. a \in Answered => c.bk \in Bookings /\ a = status[c.bk]
      BY <3>1, <2>a DEF Answered, Calls
    <3>6. CallOK(d)'
      BY <2>2, <2>a, <3>4, <3>5 DEF ServeStatus, CallOK, Answered
    <3>. QED
      BY <2>2, <3>3, <3>6, <1>e DEF ServeStatus, ServerKeeps
  <2>3. CASE ServeCancel(s)
    <3>1. PICK a \in {"Success", "failure"} : net' = [net EXCEPT ![s].ans = a]
      BY <2>3 DEF ServeCancel, Answer
    <3>2. PICK d \in Calls : d = [c EXCEPT !.ans = a]
      BY <2>a DEF Calls, Answers
    <3>3. net' = [net EXCEPT ![s] = d]
      BY <3>1, <3>2, <2>a, <1>a DEF TypeOK
    <3>4. ServerKeeps
      BY <2>3, <1>a DEF ServeCancel, ServerKeeps, TypeOK, Answered
    <3>5. d.kind = "cancel" /\ d.bk = c.bk
      BY <2>3, <2>a, <3>2 DEF ServeCancel, Calls
    <3>6. CallOK(d)'
      BY <2>a, <2>3, <3>5 DEF ServeCancel, CallOK, RideKinds
    <3>. QED
      BY <2>3, <3>3, <3>4, <3>6, <1>e DEF ServeCancel
  <2>4. CASE ServeOther(s)
    <3>2. PICK d \in Calls : d = [c EXCEPT !.ans = "Success"]
      BY <2>a DEF Calls, Answers
    <3>3. net' = [net EXCEPT ![s] = d]
      BY <2>4, <3>2, <2>a, <1>a DEF ServeOther, Answer, TypeOK
    <3>4. d.kind = c.kind /\ d.view = c.view /\ d.kind \in {"route", "rate"}
      BY <2>4, <2>a, <3>2 DEF ServeOther, Calls
    <3>5. CallOK(d)'
      BY <2>4, <2>a, <3>4 DEF ServeOther, CallOK, RideKinds
    <3>. QED
      BY <2>4, <3>3, <3>5, <1>e DEF ServeOther, ServerKeeps
  <2>. QED
    BY <1>13, <2>1, <2>2, <2>3, <2>4 DEF Serve
<1>14. ASSUME NEW s \in Slots, Lose(s)
       PROVE  (\A t \in Slots : CallOK(net[t]))' /\ StackOK'
  <2>a. PICK c \in Calls : c = net[s] /\ CallOK(c)
    BY <1>a DEF TypeOK
  <2>1. PICK d \in Calls : d = [c EXCEPT !.ans = "error"]
    BY <2>a DEF Calls, Answers
  <2>2. net' = [net EXCEPT ![s] = d]
    BY <1>14, <2>1, <2>a, <1>a DEF Lose, Answer, TypeOK
  <2>3. /\ d.kind = c.kind /\ d.home = c.home /\ d.view = c.view
        /\ d.bk = c.bk /\ d.ans = "error"
    BY <2>a, <2>1 DEF Calls
  <2>4. CallOK(d)'
    BY <1>14, <2>a, <2>3 DEF Lose, CallOK, Answered
  <2>. QED
    BY <1>14, <2>2, <2>4, <1>e DEF Lose, ServerKeeps
<1>15. ASSUME NEW b \in Bookings, DriverActs(b)
       PROVE  (\A t \in Slots : CallOK(net[t]))' /\ StackOK'
  <2>1. ServerKeeps
    BY <1>15, <1>a DEF DriverActs, ServerKeeps, TypeOK, Answered
  <2>2. Keeps /\ HomesKeep
    BY <1>15, <1>c, <2>1 DEF DriverActs, Keeps
  <2>. QED
    BY <1>15, <1>a, <2>2, CallsUnchanged, StackUnchanged DEF DriverActs
<1>16. CASE UNCHANGED vars
  <2>1. Keeps /\ HomesKeep
    BY <1>16, <1>b, <1>c DEF vars
  <2>. QED
    BY <1>16, <1>a, <2>1, CallsUnchanged, StackUnchanged DEF vars
<1>. QED
  BY <1>1, <1>2, <1>3, <1>4, <1>5, <1>7, <1>8, <1>9, <1>10, <1>11, <1>12,
     <1>13, <1>14, <1>15, <1>16, <1>17 DEF Next, User

(* IInv holds in every reachable state, whatever the order of the answers, *)
(* the number of HomeVC instances and the failures of the network.         *)
THEOREM Inductive == Spec => []IInv
<1>1. TypeOK' /\ IInv /\ [Next]_vars => IInv'
  BY NextIInv
<1>. QED
  BY <1>1, InitIInv, TypeCorrect, PTL DEF Spec

(* A ride on screen was accepted by a driver, unless two bookings of the   *)
(* HomeVC were mixed up in flight (HomeVC.bookingStatus).                  *)
THEOREM RideWasAccepted == Spec => []TrackedRideWasAccepted
<1>1. IInv => TrackedRideWasAccepted
  BY DEF IInv, StackOK, ScreenOK, TrackedRideWasAccepted, Tracked, OnStack
<1>. QED
  BY <1>1, Inductive, PTL

(* The cancel form lies on the DirectionVC of the booking it cancels.      *)
THEOREM CancelFormOnItsRide == Spec => []CancelAboveItsRide
<1>1. IInv => CancelAboveItsRide
  BY DEF IInv, StackOK
<1>. QED
  BY <1>1, Inductive, PTL

(* The rating form comes only above a completed ride (checkRideStatus).    *)
THEOREM RatingAfterCompletion == Spec => []FeedbackAfterCompletion
<1>1. IInv => FeedbackAfterCompletion
  BY DEF IInv, StackOK
<1>. QED
  BY <1>1, Inductive, PTL
-----------------------------------------------------------------------------
(* The chains of polls.  A step is a relaunch, a handler of a poll's       *)
(* answer, a step of the server or the network, or one that leaves polls   *)
(* and DirectionVCs alone.                                                 *)
StatusGrows ==
  \A b \in Bookings :
    /\ status[b] \in {"rejected", "cancelled"} => status'[b] = status[b]
    /\ status[b] \in Answered => status'[b] \in Answered

MixedStays == \A h \in Homes : home[h].mixed => home'[h].mixed

Fills(s, call) == net' = [net EXCEPT ![s] = call] /\ call.ans = "none"

PollHandled(s) ==
  \/ StatusPending(s) \/ StatusRefused(s) \/ StatusAccepted(s)
  \/ RouteAnswered(s) \/ RideGoesOn(s) \/ RideCompleted(s)
  \/ RideCancelled(s) \/ RideUnknown(s)

PollsLeft ==
  \/ net' = net
  \/ \E s \in Slots : \E call :
       net[s].kind \notin {"check", "route", "ride"} /\ Fills(s, call)

LEMMA StatusStep ==
  ASSUME TypeOK, [Next]_vars
  PROVE  StatusGrows
<1>1. ASSUME status' = status PROVE StatusGrows
  BY <1>1 DEF StatusGrows
<1>2. ASSUME NEW s \in Slots, ServeBooking(s) PROVE StatusGrows
  BY <1>2 DEF ServeBooking, TypeOK, StatusGrows, Answered
<1>3. ASSUME NEW s \in Slots, ServeCancel(s) PROVE StatusGrows
  BY <1>3 DEF ServeCancel, TypeOK, StatusGrows, Answered
<1>4. ASSUME NEW b \in Bookings, DriverActs(b) PROVE StatusGrows
  BY <1>4 DEF DriverActs, TypeOK, StatusGrows, Answered
<1>5. CASE User
  BY <1>1, <1>5 DEF User, TapMarker, DismissSheet, ConfirmDriver, SelectVehicle,
     PressCancelRide, BackFromCancel, SubmitCancel, SkipFeedback, SubmitFeedback,
     HomeForeground, RideForeground
<1>6. ASSUME NEW s \in Slots, Handle(s) PROVE StatusGrows
  BY <1>1, <1>6 DEF Handle, GeocodeAnswered, BookingRequest, BookingAnswered,
     StatusPending, StatusRefused, StatusAccepted, RouteAnswered, RideGoesOn,
     RideCompleted, RideCancelled, RideUnknown, CancelAnswered, RatingAnswered
<1>7. ASSUME NEW s \in Slots, Serve(s) \/ Lose(s) PROVE StatusGrows
  BY <1>1, <1>2, <1>3, <1>7 DEF Serve, ServeStatus, ServeOther, Lose
<1>8. CASE Relaunch \/ UNCHANGED vars
  BY <1>1, <1>8 DEF Relaunch, vars
<1>. QED
  BY <1>4, <1>5, <1>6, <1>7, <1>8 DEF Next

LEMMA HomeFieldKept ==
  ASSUME TypeOK, NEW h \in Homes, NEW f \in HomeFields,
         home[h].mixed => f.mixed, home' = [home EXCEPT ![h] = f]
  PROVE  MixedStays
BY DEF TypeOK, MixedStays

(* A call that has just been made or taken away waits for nothing yet.     *)
LEMMA FreshFills ==
  ASSUME NEW s \in Slots, NEW kind, NEW h, NEW v, NEW b, Becomes(s, Call(kind, h, v, b))
  PROVE  \E call : Fills(s, call)
<1>1. PICK call : call = Call(kind, h, v, b)
  OBVIOUS
<1>2. call.ans = "none"
  BY <1>1 DEF Call
<1>3. net' = [net EXCEPT ![s] = call]
  BY <1>1 DEF Becomes
<1>4. Fills(s, call)
  BY <1>2, <1>3 DEF Fills
<1>. QED
  BY <1>4, Zenon

LEMMA FreeFills ==
  ASSUME NEW s \in Slots, Free(s)
  PROVE  \E call : Fills(s, call)
BY FreshFills DEF Free, Idle, Becomes

LEMMA PollSteps ==
  ASSUME TypeOK, [Next]_vars
  PROVE  \/ Relaunch
         \/ \E s \in Slots : PollHandled(s) \/ Serve(s) \/ Lose(s)
         \/ PollsLeft /\ UNCHANGED <<ride, views>> /\ MixedStays
<1>. DEFINE Left == PollsLeft /\ UNCHANGED <<ride, views>> /\ MixedStays
<1>a. cur \in Homes /\ \A h \in Homes : home[h] \in HomeFields
  BY DEF TypeOK
<1>b. \A s \in Slots : net[s] \in Calls
  BY DEF TypeOK
<1>c. ASSUME NEW kind \in Kinds, NEW h, NEW v, NEW b, Start(Call(kind, h, v, b))
      PROVE  PollsLeft
  <2>1. PICK s \in Slots : net[s] = Idle /\ Becomes(s, Call(kind, h, v, b))
    BY <1>c DEF Start
  <2>2. net[s].kind \notin {"check", "route", "ride"}
    BY <2>1 DEF Idle, Call
  <2>3. \E call : Fills(s, call)
    BY <2>1, FreshFills
  <2>. QED
    BY <2>2, <2>3, Zenon DEF PollsLeft
<1>d. ASSUME NEW s \in Slots, net[s].kind \notin {"check", "route", "ride"},
             Free(s) \/ \E kind, h, v, b : Becomes(s, Call(kind, h, v, b))
      PROVE  PollsLeft
  <2>1. \E call : Fills(s, call)
    BY <1>d, FreshFills, FreeFills
  <2>. QED
    BY <1>d, <2>1, Zenon DEF PollsLeft
<1>e. home' = home => MixedStays
  BY DEF MixedStays
<1>1. CASE TapMarker \/ DismissSheet
  <2>1. PICK up \in BOOLEAN : home' = [home EXCEPT ![cur].sheet = up]
    BY <1>1 DEF TapMarker, DismissSheet
  <2>2. PICK f : f = [home[cur] EXCEPT !.sheet = up]
    OBVIOUS
  <2>3. f \in HomeFields /\ f.mixed = home[cur].mixed /\ home' = [home EXCEPT ![cur] = f]
    BY <1>a, <2>1, <2>2 DEF HomeFields
  <2>4. MixedStays
    BY <1>a, <2>3, HomeFieldKept
  <2>. QED
    BY <1>1, <2>4 DEF TapMarker, DismissSheet, PollsLeft
<1>2. CASE ConfirmDriver
  <2>1. PICK f : f = [home[cur] EXCEPT !.sheet = FALSE, !.table = TRUE]
    OBVIOUS
  <2>2. f \in HomeFields /\ f.mixed = home[cur].mixed
    BY <1>a, <2>1 DEF HomeFields
  <2>3. home' = [home EXCEPT ![cur] = f]
    BY <1>2, <2>1 DEF ConfirmDriver
  <2>4. MixedStays
    BY <1>a, <2>2, <2>3, HomeFieldKept
  <2>. QED
    BY <1>2, <1>c, <2>4 DEF ConfirmDriver, Kinds, HomeKinds
<1>3. CASE SelectVehicle
  <2>1. PICK f : f = [home[cur] EXCEPT !.table = FALSE]
    OBVIOUS
  <2>2. f \in HomeFields /\ f.mixed = home[cur].mixed
    BY <1>a, <2>1 DEF HomeFields
  <2>3. home' = [home EXCEPT ![cur] = f]
    BY <1>3, <2>1 DEF SelectVehicle
  <2>4. MixedStays
    BY <1>a, <2>2, <2>3, HomeFieldKept
  <2>. QED
    BY <1>3, <1>c, <2>4 DEF SelectVehicle, Kinds, HomeKinds
<1>4. CASE PressCancelRide \/ BackFromCancel \/ SkipFeedback
  BY <1>4, <1>e DEF PressCancelRide, BackFromCancel, SkipFeedback, PollsLeft
<1>5. CASE SubmitCancel \/ SubmitFeedback
  BY <1>5, <1>c, <1>e DEF SubmitCancel, SubmitFeedback, Kinds
<1>6. CASE \/ \E h \in Homes : HomeForeground(h)
           \/ \E v \in Views : RideForeground(v)
  BY <1>6, <1>c, <1>e DEF HomeForeground, RideForeground, Kinds, HomeKinds, RideKinds
<1>7. ASSUME NEW s \in Slots, Handle(s), ~PollHandled(s)
      PROVE  Left
  <2>1. CASE GeocodeAnswered(s)
    <3>1. PICK h \in Homes : h = net[s].home
      BY <1>b, <2>1 DEF GeocodeAnswered, Calls, HomeKinds
    <3>2. PICK f : f = [home[h] EXCEPT !.addr = TRUE]
      OBVIOUS
    <3>3. f \in HomeFields /\ f.mixed = home[h].mixed
      BY <1>a, <3>2 DEF HomeFields
    <3>4. home' = [home EXCEPT ![h] = f] \/ home' = home
      BY <2>1, <3>1, <3>2 DEF GeocodeAnswered
    <3>5. MixedStays
      BY <1>e, <3>3, <3>4, HomeFieldKept
    <3>. QED
      BY <2>1, <1>d, <3>5 DEF GeocodeAnswered
  <2>2. CASE BookingRequest(s)
    BY <2>2, <1>d, <1>e DEF BookingRequest
  <2>3. CASE BookingAnswered(s)
    <3>1. PICK h \in Homes, b \in AnyBooking : h = net[s].home /\ b = net[s].bk
      BY <1>b, <2>3 DEF BookingAnswered, Calls, HomeKinds
    <3>2. PICK f : f = [home[h] EXCEPT !.bk = b, !.mixed = @ \/ ChecksAnother(h, b)]
      OBVIOUS
    <3>3. ChecksAnother(h, b) \in BOOLEAN
      BY DEF ChecksAnother
    <3>4. f \in HomeFields /\ f.mixed = (home[h].mixed \/ ChecksAnother(h, b))
      BY <1>a, <3>2, <3>3 DEF HomeFields
    <3>5. home' = [home EXCEPT ![h] = f] \/ home' = home
      BY <2>3, <3>1, <3>2 DEF BookingAnswered
    <3>6. MixedStays
      BY <1>e, <3>4, <3>5, HomeFieldKept
    <3>. QED
      BY <2>3, <1>d, <3>6 DEF BookingAnswered
  <2>4. CASE CancelAnswered(s) \/ RatingAnswered(s)
    BY <2>4, <1>d, <1>e DEF CancelAnswered, RatingAnswered
  <2>. QED
    BY <1>7, <2>1, <2>2, <2>3, <2>4 DEF Handle, PollHandled
<1>8. ASSUME NEW b \in Bookings, DriverActs(b) PROVE Left
  BY <1>8, <1>e DEF DriverActs, PollsLeft
<1>9. CASE UNCHANGED vars
  BY <1>9, <1>e DEF vars, PollsLeft
<1>. QED
  BY <1>1, <1>2, <1>3, <1>4, <1>5, <1>6, <1>7, <1>8, <1>9 DEF Next, User

(* Handling a poll's answer fills its slot with a call that waits, keeps   *)
(* the rides of the DirectionVCs there are, and mixes up nothing.          *)
LEMMA PollFills ==
  ASSUME TypeOK, NEW s \in Slots, PollHandled(s)
  PROVE  /\ \E call : Fills(s, call)
         /\ home' = home /\ status' = status
         /\ views \subseteq views' /\ \A v \in views : ride'[v] = ride[v]
<1>1. CASE StatusPending(s)
  BY <1>1, FreshFills DEF StatusPending
<1>2. CASE StatusRefused(s)
  BY <1>2, FreeFills DEF StatusRefused
<1>3. CASE StatusAccepted(s)
  <2>1. PICK v \in Views \ views :
          /\ views' = views \union {v}
          /\ ride' = [ride EXCEPT ![v] = home[cur].bk]
          /\ AskRoute(s, v)
    BY <1>3 DEF StatusAccepted, ShowRide
  <2>2. \A w \in views : ride'[w] = ride[w]
    BY <2>1 DEF TypeOK
  <2>3. \E call : Fills(s, call)
    BY <2>1, FreshFills DEF AskRoute
  <2>. QED
    BY <1>3, <2>1, <2>2, <2>3 DEF StatusAccepted
<1>4. CASE RouteAnswered(s)
  BY <1>4, FreshFills, FreeFills DEF RouteAnswered
<1>5. CASE RideGoesOn(s)
  BY <1>5, FreshFills DEF RideGoesOn
<1>6. CASE RideCompleted(s) \/ RideCancelled(s) \/ RideUnknown(s)
  BY <1>6, FreeFills DEF RideCompleted, RideCancelled, RideUnknown
<1>. QED
  BY <1>1, <1>2, <1>3, <1>4, <1>5, <1>6 DEF PollHandled
-----------------------------------------------------------------------------
(* PInv is inductive.                                                      *)
LEMMA PollKept ==
  ASSUME NEW c \in Calls, PollOK(c), c.kind = "ride" => c.bk \in Bookings,
         StatusGrows, MixedStays
  PROVE  PollOK(c)'
<1>1. AnyMixed => AnyMixed'
  BY DEF AnyMixed, MixedStays
<1>2. c.bk \in Bookings /\ c.ans \in {"rejected", "cancelled"} /\ status[c.bk] = c.ans
        => status'[c.bk] = c.ans
  BY DEF StatusGrows
<1>. QED
  BY <1>1, <1>2 DEF PollOK

LEMMA PollFresh ==
  ASSUME NEW c, c.ans = "none"
  PROVE  PollOK(c)'
BY DEF PollOK

LEMMA RidesPolled ==
  ASSUME TypeOK, \A t \in Slots : CallOK(net[t]), RidesKnown, NEW t \in Slots
  PROVE  net[t].kind = "ride" => net[t].bk \in Bookings
BY DEF TypeOK, CallOK, RidesKnown, RideKinds

LEMMA RidesKept ==
  ASSUME RidesKnown, StatusGrows, MixedStays, views' = views,
         \A v \in views : ride'[v] = ride[v]
  PROVE  RidesKnown'
BY DEF RidesKnown, StatusGrows, MixedStays, AnyMixed

(* The polls after a step that fills or answers slot s.                    *)
LEMMA PollsKept ==
  ASSUME TypeOK, \A t \in Slots : CallOK(net[t]), PInv, StatusGrows, MixedStays,
         NEW s \in Slots, NEW c, PollOK(c)', net' = [net EXCEPT ![s] = c]
  PROVE  (\A t \in Slots : PollOK(net[t]))'
<1>. SUFFICES ASSUME NEW t \in Slots
              PROVE  PollOK(net[t])'
  OBVIOUS
<1>1. CASE t = s
  <2>1. net'[t] = c
    BY <1>1 DEF TypeOK
  <2>. QED
    BY <2>1 DEF PollOK
<1>2. CASE t # s
  <2>1. PICK d \in Calls : d = net[t] /\ d = net'[t]
    BY <1>2 DEF TypeOK
  <2>2. PollOK(d) /\ (d.kind = "ride" => d.bk \in Bookings)
    BY <2>1, RidesPolled DEF PInv
  <2>3. PollOK(d)'
    BY <2>2, PollKept
  <2>. QED
    BY <2>1, <2>3 DEF PollOK
<1>. QED
  BY <1>1, <1>2

LEMMA NextPInv ==
  ASSUME IInv, PInv, [Next]_vars
  PROVE  PInv'
<1>a. TypeOK /\ (\A t \in Slots : CallOK(net[t])) /\ RidesKnown /\ StatusGrows
  BY StatusStep DEF IInv, PInv
<1>b. ASSUME NEW s \in Slots, NEW c, PollOK(c)', net' = [net EXCEPT ![s] = c],
             MixedStays, UNCHANGED <<ride, views>>
      PROVE  PInv'
  BY <1>a, <1>b, PollsKept, RidesKept DEF PInv
<1>c. home' = home => MixedStays
  BY DEF MixedStays
<1>1. CASE Relaunch
  <2>1. \A t \in Slots : net'[t].ans = "none"
    BY <1>1 DEF Relaunch, Idle, Call
  <2>2. \A t \in Slots : PollOK(net[t])'
    BY <2>1 DEF PollOK
  <2>. QED
    BY <1>1, <2>2 DEF Relaunch, PInv, RidesKnown
<1>2. ASSUME NEW s \in Slots, PollHandled(s)
      PROVE  PInv'
  <2>1. PICK call : Fills(s, call)
    BY <1>a, <1>2, PollFills
  <2>2. /\ home' = home /\ status' = status
        /\ views \subseteq views' /\ \A v \in views : ride'[v] = ride[v]
    BY <1>a, <1>2, PollFills
  <2>3. PollOK(call)' /\ net' = [net EXCEPT ![s] = call]
    BY <2>1, PollFresh DEF Fills
  <2>4. (\A t \in Slots : PollOK(net[t]))'
    BY <1>a, <1>c, <2>2, <2>3, PollsKept
  <2>5. CASE StatusAccepted(s)
    <3>1. PICK v \in Views \ views :
            views' = views \union {v} /\ ride' = [ride EXCEPT ![v] = home[cur].bk]
      BY <2>5 DEF StatusAccepted, ShowRide
    <3>2. PICK c \in Calls : c = net[s] /\ CallOK(c)
      BY <1>a DEF TypeOK
    <3>3. c.kind = "check" /\ c.ans \in Answered /\ c.home = cur
      BY <2>5, <3>2 DEF StatusAccepted, OpensRide
    <3>4. home[cur].bk \in AnyBooking /\ cur \in Homes
      BY <1>a DEF TypeOK, HomeFields
    <3>5. home[cur].bk \in Bookings /\ (home[cur].mixed \/ status[home[cur].bk] \in Answered)
      BY <3>2, <3>3, <3>4, BookingAssumption DEF CallOK, AnyBooking
    <3>6. ride'[v] = home[cur].bk
      BY <1>a, <3>1 DEF TypeOK
    <3>7. AnyMixed' = AnyMixed
      BY <2>2 DEF AnyMixed
    <3>8. home[cur].mixed => AnyMixed
      BY <3>4 DEF AnyMixed
    <3>9. RidesKnown'
      BY <1>a, <2>2, <3>1, <3>5, <3>6, <3>7, <3>8 DEF RidesKnown
    <3>. QED
      BY <2>4, <3>9 DEF PInv
  <2>6. CASE ~StatusAccepted(s)
    <3>1. views' = views
      BY <1>2, <2>6 DEF PollHandled, StatusPending, StatusRefused, RouteAnswered,
         RideGoesOn, RideCompleted, RideCancelled, RideUnknown
    <3>2. RidesKnown'
      BY <1>a, <1>c, <2>2, <3>1, RidesKept
    <3>. QED
      BY <2>4, <3>2 DEF PInv
  <2>. QED
    BY <2>5, <2>6
<1>3. ASSUME NEW s \in Slots, Serve(s) \/ Lose(s)
      PROVE  PInv'
  <2>a. PICK c \in Calls : c = net[s] /\ CallOK(c) /\ PollOK(c)
    BY <1>a DEF TypeOK, PInv
  <2>b. MixedStays /\ UNCHANGED <<ride, views>>
    BY <1>3, <1>c DEF Serve, ServeBooking, ServeStatus, ServeCancel, ServeOther, Lose
  <2>c. ASSUME NEW a, Answer(s, a), NEW d, d = [c EXCEPT !.ans = a], PollOK(d)'
        PROVE  PInv'
    <3>1. net' = [net EXCEPT ![s] = d]
      BY <1>a, <2>a, <2>c DEF Answer, TypeOK
    <3>. QED
      BY <1>b, <2>b, <2>c, <3>1
  <2>1. CASE ServeBooking(s)
    <3>1. PICK b \in Bookings : net' = [net EXCEPT ![s].bk = b, ![s].ans = "Success"]
      BY <2>1 DEF ServeBooking
    <3>2. PICK d : d = [c EXCEPT !.bk = b, !.ans = "Success"]
      OBVIOUS
    <3>3. net' = [net EXCEPT ![s] = d]
      BY <1>a, <2>a, <3>1, <3>2 DEF TypeOK
    <3>4. d.kind = "book"
      BY <2>1, <2>a, <3>2 DEF ServeBooking, Calls
    <3>5. PollOK(d)'
      BY <3>4 DEF PollOK
    <3>. QED
      BY <1>b, <2>b, <3>3, <3>5
  <2>2. CASE ServeStatus(s)
    <3>1. PICK a : a = IF c.bk = NoBooking THEN "failure" ELSE status[c.bk]
      OBVIOUS
    <3>2. PICK d : d = [c EXCEPT !.ans = a]
      OBVIOUS
    <3>3. /\ d.kind = c.kind /\ d.view = c.view /\ d.bk = c.bk /\ d.ans = a
          /\ d.kind \in {"check", "ride"}
      BY <2>2, <2>a, <3>2 DEF ServeStatus, Calls
    <3>4. c.bk \in Bookings => a = status[c.bk] /\ a \in Status
      BY <3>1, <1>a, BookingAssumption DEF TypeOK
    <3>5. status' = status /\ (AnyMixed => AnyMixed')
      BY <2>2 DEF ServeStatus, AnyMixed
    <3>6. c.kind = "ride" => /\ c.bk \in Bookings
                             /\ AnyMixed \/ status[c.bk] \in Answered
      BY <2>a, <1>a DEF CallOK, RidesKnown, RideKinds
    <3>7. PollOK(d)'
      BY <3>3, <3>4, <3>5, <3>6 DEF PollOK, Status, Answered
    <3>. QED
      BY <2>2, <2>a, <2>c, <3>1, <3>2, <3>7 DEF ServeStatus
  <2>3. CASE ServeCancel(s)
    <3>1. PICK a : Answer(s, a)
      BY <2>3 DEF ServeCancel
    <3>2. PICK d : d = [c EXCEPT !.ans = a]
      OBVIOUS
    <3>3. d.kind = "cancel"
      BY <2>3, <2>a, <3>2 DEF ServeCancel, Calls
    <3>4. PollOK(d)'
      BY <3>3 DEF PollOK
    <3>. QED
      BY <2>c, <3>1, <3>2, <3>4
  <2>4. CASE ServeOther(s)
    <3>1. PICK d : d = [c EXCEPT !.ans = "Success"]
      OBVIOUS
    <3>2. d.kind \in {"route", "rate"} /\ d.ans = "Success"
      BY <2>4, <2>a, <3>1 DEF ServeOther, Calls
    <3>3. PollOK(d)'
      BY <3>2 DEF PollOK
    <3>. QED
      BY <2>4, <2>c, <3>1, <3>3 DEF ServeOther
  <2>5. CASE Lose(s)
    <3>1. PICK d : d = [c EXCEPT !.ans = "error"]
      OBVIOUS
    <3>2. d.ans = "error"
      BY <2>a, <3>1 DEF Calls
    <3>3. PollOK(d)'
      BY <3>2 DEF PollOK
    <3>. QED
      BY <2>5, <2>c, <3>1, <3>3 DEF Lose
  <2>. QED
    BY <1>3, <2>1, <2>2, <2>3, <2>4, <2>5 DEF Serve
<1>4. CASE PollsLeft /\ UNCHANGED <<ride, views>> /\ MixedStays
  <2>1. CASE net' = net
    <3>1. ASSUME NEW t \in Slots PROVE PollOK(net[t])'
      <4>1. PICK d \in Calls : d = net[t] /\ d = net'[t]
        BY <1>a, <2>1 DEF TypeOK
      <4>2. PollOK(d) /\ (d.kind = "ride" => d.bk \in Bookings)
        BY <1>a, <4>1, RidesPolled DEF PInv
      <4>3. PollOK(d)'
        BY <1>a, <1>4, <4>2, PollKept
      <4>. QED
        BY <4>1, <4>3 DEF PollOK
    <3>. QED
      BY <1>a, <1>4, <3>1, RidesKept DEF PInv
  <2>2. ASSUME NEW s \in Slots, NEW call, Fills(s, call)
        PROVE  PInv'
    BY <1>b, <1>4, <2>2, PollFresh DEF Fills
  <2>. QED
    BY <1>4, <2>1, <2>2 DEF PollsLeft
<1>. QED
  BY <1>a, <1>1, <1>2, <1>3, <1>4, PollSteps

(* An answer that ends a chain of polls is still true when it is handled,  *)
(* and a DirectionVC in memory follows a ride that was accepted unless     *)
(* bookings were mixed up (HomeVC.bookingStatus, checkRideStatus).         *)
THEOREM PollsTrue == Spec => []PInv
<1>1. Init => PInv
  <2>. SUFFICES ASSUME Init PROVE PInv
    OBVIOUS
  <2>1. \A t \in Slots : net[t].ans = "none"
    BY DEF Init, Idle, Call
  <2>2. \A t \in Slots : PollOK(net[t])
    BY <2>1 DEF PollOK
  <2>. QED
    BY <2>2 DEF Init, PInv, RidesKnown
<1>2. IInv /\ PInv /\ [Next]_vars => PInv'
  BY NextPInv
<1>. QED
  BY <1>1, <1>2, Inductive, PTL DEF Spec
-----------------------------------------------------------------------------
(* A poll waits, or is answered or lost, until its answer is handled.      *)
PollStays(p) ==
  /\ net'[p].kind = net[p].kind /\ net'[p].home = net[p].home
  /\ net'[p].view = net[p].view /\ net'[p].bk = net[p].bk

LEMMA PollWaits ==
  ASSUME TypeOK, [Next]_vars, NEW p \in Slots, net[p].kind \in {"check", "route", "ride"}
  PROVE  Relaunch \/ PollHandled(p) \/ PollStays(p)
<1>a. ASSUME NEW s \in Slots, NEW c, net' = [net EXCEPT ![s] = c], s # p
      PROVE  PollStays(p)
  BY <1>a DEF TypeOK, PollStays
<1>1. ASSUME NEW s \in Slots, PollHandled(s), s # p
      PROVE  PollStays(p)
  <2>1. PICK call : Fills(s, call)
    BY <1>1, PollFills
  <2>. QED
    BY <1>1, <1>a, <2>1 DEF Fills
<1>2. ASSUME NEW s \in Slots, Serve(s) \/ Lose(s)
      PROVE  PollStays(p)
  <2>1. CASE ServeBooking(s)
    <3>1. s # p
      BY <2>1 DEF ServeBooking
    <3>2. PICK b \in Bookings : net' = [net EXCEPT ![s].bk = b, ![s].ans = "Success"]
      BY <2>1 DEF ServeBooking
    <3>. QED
      BY <3>1, <3>2 DEF TypeOK, PollStays
  <2>2. CASE \E a : Answer(s, a)
    <3>1. PICK a : net' = [net EXCEPT ![s].ans = a]
      BY <2>2 DEF Answer
    <3>. QED
      BY <3>1 DEF TypeOK, PollStays, Calls
  <2>3. ServeStatus(s) \/ ServeCancel(s) \/ ServeOther(s) \/ Lose(s) => \E a : Answer(s, a)
    BY DEF ServeStatus, ServeCancel, ServeOther, Lose
  <2>. QED
    BY <1>2, <2>1, <2>2, <2>3 DEF Serve
<1>3. CASE PollsLeft
  <2>1. CASE net' = net
    BY <2>1 DEF PollStays
  <2>2. ASSUME NEW s \in Slots, NEW call,
               net[s].kind \notin {"check", "route", "ride"}, Fills(s, call)
        PROVE  PollStays(p)
    BY <1>a, <2>2 DEF Fills
  <2>. QED
    BY <1>3, <2>1, <2>2 DEF PollsLeft
<1>. QED
  BY <1>1, <1>2, <1>3, PollSteps

(* Only the answer to its booking request gives a HomeVC another booking.  *)
LEMMA BookingGiven ==
  ASSUME TypeOK, [Next]_vars, NEW h \in Homes, home'[h].bk # home[h].bk
  PROVE  \/ Relaunch
         \/ \E s \in Slots :
              BookingAnswered(s) /\ net[s].ans = "Success" /\ net[s].home = h
<1>a. cur \in Homes /\ \A k \in Homes : home[k] \in HomeFields
  BY DEF TypeOK
<1>b. home' # home
  OBVIOUS
<1>1. ~TapMarker /\ ~DismissSheet
  <2>1. ASSUME NEW up, home' = [home EXCEPT ![cur].sheet = up]
        PROVE  FALSE
    <3>1. PICK f : f = [home[cur] EXCEPT !.sheet = up]
      OBVIOUS
    <3>2. f.bk = home[cur].bk /\ home' = [home EXCEPT ![cur] = f]
      BY <1>a, <2>1, <3>1 DEF HomeFields
    <3>. QED
      BY <1>a, <3>2 DEF TypeOK
  <2>. QED
    BY <2>1 DEF TapMarker, DismissSheet
<1>2. CASE ConfirmDriver
  BY <1>2, <1>a DEF ConfirmDriver, TypeOK, HomeFields
<1>3. CASE SelectVehicle
  BY <1>3, <1>a DEF SelectVehicle, TypeOK, HomeFields
<1>4. CASE User
  BY <1>1, <1>2, <1>3, <1>4, <1>b DEF User, PressCancelRide, BackFromCancel,
     SubmitCancel, SkipFeedback, SubmitFeedback, HomeForeground, RideForeground
<1>5. ASSUME NEW s \in Slots, GeocodeAnswered(s)
      PROVE  FALSE
  <2>1. PICK k \in Homes : k = net[s].home
    BY <1>5 DEF GeocodeAnswered, TypeOK, Calls, HomeKinds
  <2>2. home' = [home EXCEPT ![k].addr = TRUE]
    BY <1>5, <1>b, <2>1 DEF GeocodeAnswered
  <2>. QED
    BY <1>a, <2>2 DEF TypeOK, HomeFields
<1>6. ASSUME NEW s \in Slots, BookingAnswered(s)
      PROVE  net[s].ans = "Success" /\ net[s].home = h
  <2>1. PICK k \in Homes : k = net[s].home
    BY <1>6 DEF BookingAnswered, TypeOK, Calls, HomeKinds
  <2>2. net[s].ans = "Success"
    BY <1>6, <1>b DEF BookingAnswered
  <2>3. PICK b : b = net[s].bk
    OBVIOUS
  <2>4. PICK m : m = (home[k].mixed \/ ChecksAnother(k, b))
    OBVIOUS
  <2>5. home' = [home EXCEPT ![k].bk = b, ![k].mixed = m]
    BY <1>6, <2>1, <2>2, <2>3, <2>4 DEF BookingAnswered
  <2>. QED
    BY <1>a, <2>1, <2>2, <2>5 DEF TypeOK
<1>7. ASSUME NEW s \in Slots, Handle(s)
      PROVE  BookingAnswered(s)
  BY <1>7, <1>b, <1>5 DEF Handle, BookingRequest, StatusPending, StatusRefused,
     StatusAccepted, RouteAnswered, RideGoesOn, RideCompleted, RideCancelled,
     RideUnknown, CancelAnswered, RatingAnswered
<1>8. ASSUME NEW s \in Slots, Serve(s) \/ Lose(s)
      PROVE  FALSE
  BY <1>8, <1>b DEF Serve, ServeBooking, ServeStatus, ServeCancel, ServeOther, Lose
<1>9. (\E b \in Bookings : DriverActs(b)) \/ UNCHANGED vars => FALSE
  BY <1>b DEF DriverActs, vars
<1>. QED
  BY <1>4, <1>6, <1>7, <1>8, <1>9 DEF Next

(* One step of a HomeVC's polling.                                         *)
LEMMA PollingStep ==
  ASSUME IInv, PInv, [Next]_vars, NEW h \in Homes, home'[h].bk \in Bookings,
         home[h].bk = home'[h].bk => Polled(h) /\ status[home[h].bk] = "pending"
  PROVE  Polled(h)' \/ \E s \in Slots : Polls(s, h) /\ net[s].ans = "error"
<1>a. TypeOK
  BY DEF IInv
<1>b. ~Relaunch
  BY BookingAssumption DEF Relaunch, NewHome
<1>1. CASE home[h].bk # home'[h].bk
  <2>1. PICK s \in Slots :
          BookingAnswered(s) /\ net[s].ans = "Success" /\ net[s].home = h
    BY <1>1, <1>a, <1>b, BookingGiven
  <2>2. PICK b : b = net[s].bk
    OBVIOUS
  <2>3. home'[h].bk = b
    BY <1>a, <2>1, <2>2 DEF BookingAnswered, TypeOK, HomeFields
  <2>4. net'[s] = Call("check", h, NoView, b)
    BY <1>a, <2>1, <2>2 DEF BookingAnswered, Becomes, TypeOK
  <2>5. Polls(s, h)'
    BY <2>3, <2>4 DEF Polls, Call
  <2>. QED
    BY <2>5 DEF Polled
<1>2. CASE home[h].bk = home'[h].bk
  <2>1. PICK p \in Slots : Polls(p, h)
    BY <1>2 DEF Polled
  <2>2. PICK c \in Calls : c = net[p] /\ CallOK(c) /\ PollOK(c)
    BY <1>a DEF IInv, PInv, TypeOK
  <2>3. PICK b \in Bookings : b = home[h].bk
    BY <1>2
  <2>4. c.kind = "check" /\ c.home = h /\ c.bk = b /\ status[b] = "pending"
    BY <1>2, <2>1, <2>2, <2>3 DEF Polls
  <2>5. c.ans \notin Answered \union {"failure", "rejected"}
    BY <2>2, <2>4 DEF CallOK, PollOK, Answered
  <2>6. CASE PollStays(p)
    <3>1. Polls(p, h)'
      BY <1>2, <2>1, <2>6 DEF PollStays, Polls
    <3>. QED
      BY <3>1 DEF Polled
  <2>7. CASE StatusPending(p)
    <3>1. net'[p] = Call("check", h, NoView, b)
      BY <1>a, <2>2, <2>3, <2>4, <2>7 DEF StatusPending, Becomes, TypeOK
    <3>2. Polls(p, h)'
      BY <1>2, <2>3, <3>1 DEF Polls, Call
    <3>. QED
      BY <3>2 DEF Polled
  <2>8. CASE StatusRefused(p)
    <3>1. net[p].ans = "error"
      BY <2>2, <2>5, <2>8 DEF StatusRefused, OpensRide
    <3>. QED
      BY <2>1, <3>1
  <2>9. ~StatusAccepted(p)
    BY <2>2, <2>5 DEF StatusAccepted, OpensRide
  <2>10. PollHandled(p) => StatusPending(p) \/ StatusRefused(p) \/ StatusAccepted(p)
    BY <2>2, <2>4 DEF PollHandled, RouteAnswered, RideGoesOn, RideCompleted,
       RideCancelled, RideUnknown
  <2>. QED
    BY <1>a, <1>b, <2>2, <2>4, <2>6, <2>7, <2>8, <2>9, <2>10, PollWaits
<1>. QED
  BY <1>1, <1>2

(* One step of the following of a ride.                                    *)
LEMMA FollowingStep ==
  ASSUME IInv, PInv, [Next]_vars, NEW v \in views',
         v \in views => Followed(v) /\ status[ride[v]] \in {"accepted", "started"}
  PROVE  \/ Followed(v)'
         \/ \E s \in Slots : /\ Follows(s, v)
                             /\ net[s].ans = "error" \/ (net[s].ans = "pending" /\ AnyMixed)
<1>a. TypeOK
  BY DEF IInv
<1>b. ~Relaunch
  BY DEF Relaunch
<1>1. CASE v \notin views
  <2>1. PICK s \in Slots : PollHandled(s)
    BY <1>1, <1>a, <1>b, PollSteps DEF Serve, ServeBooking, ServeStatus, ServeCancel,
       ServeOther, Lose
  <2>2. StatusAccepted(s)
    BY <1>1, <2>1 DEF PollHandled, StatusPending, StatusRefused, RouteAnswered,
       RideGoesOn, RideCompleted, RideCancelled, RideUnknown
  <2>3. AskRoute(s, v)
    BY <1>1, <2>2 DEF StatusAccepted, ShowRide
  <2>4. net'[s] = Call("route", 0, v, NoBooking)
    BY <1>a, <2>3 DEF AskRoute, Becomes, TypeOK
  <2>5. Follows(s, v)'
    BY <2>4 DEF Follows, Call, RideKinds
  <2>. QED
    BY <2>5 DEF Followed
<1>2. CASE v \in views
  <2>1. PICK p \in Slots : Follows(p, v)
    BY <1>2 DEF Followed
  <2>2. PICK c \in Calls : c = net[p] /\ CallOK(c) /\ PollOK(c)
    BY <1>a DEF IInv, PInv, TypeOK
  <2>3. c.kind \in RideKinds /\ c.view = v /\ (c.kind = "ride" => c.bk = ride[v])
    BY <2>1, <2>2 DEF Follows, CallOK
  <2>4. status[ride[v]] \in {"accepted", "started"}
    BY <1>2
  <2>a. ASSUME NEW kind \in RideKinds, NEW b, Becomes(p, Call(kind, 0, v, b))
        PROVE  Followed(v)'
    <3>1. net'[p] = Call(kind, 0, v, b)
      BY <1>a, <2>a DEF Becomes, TypeOK
    <3>2. Follows(p, v)'
      BY <3>1 DEF Follows, Call
    <3>. QED
      BY <3>2 DEF Followed
  <2>5. CASE PollStays(p)
    <3>1. Follows(p, v)'
      BY <2>1, <2>5 DEF PollStays, Follows
    <3>. QED
      BY <3>1 DEF Followed
  <2>6. CASE RouteAnswered(p)
    <3>1. CASE c.ans = "Success"
      BY <2>2, <2>3, <2>6, <2>a, <3>1 DEF RouteAnswered, RideKinds
    <3>2. CASE c.ans # "Success"
      <4>1. net[p].ans = "error"
        BY <2>2, <2>6, <3>2 DEF RouteAnswered, PollOK
      <4>. QED
        BY <2>1, <4>1
    <3>. QED
      BY <3>1, <3>2
  <2>7. CASE RideGoesOn(p)
    BY <2>2, <2>3, <2>7, <2>a DEF RideGoesOn, RideKinds
  <2>8. ~RideCompleted(p) /\ ~RideCancelled(p)
    BY <2>2, <2>3, <2>4 DEF RideCompleted, RideCancelled, CallOK, PollOK
  <2>9. CASE RideUnknown(p)
    <3>1. c.kind = "ride" /\ c.ans \in {"pending", "rejected", "Success", "failure", "error"}
      BY <2>2, <2>9 DEF RideUnknown, Answers, Status, Answered
    <3>2. net[p].ans = "error" \/ (net[p].ans = "pending" /\ AnyMixed)
      BY <2>2, <2>3, <2>4, <3>1 DEF PollOK
    <3>. QED
      BY <2>1, <3>2
  <2>10. PollHandled(p) => RouteAnswered(p) \/ RideGoesOn(p) \/ RideCompleted(p)
                           \/ RideCancelled(p) \/ RideUnknown(p)
    BY <2>2, <2>3 DEF PollHandled, StatusPending, StatusRefused, StatusAccepted, RideKinds
  <2>11. net[p].kind \in {"check", "route", "ride"}
    BY <2>2, <2>3 DEF RideKinds
  <2>. QED
    BY <1>a, <1>b, <2>5, <2>6, <2>7, <2>8, <2>9, <2>10, <2>11, PollWaits
<1>. QED
  BY <1>1, <1>2

(* A HomeVC polls the booking it is given, and while it is pending only an *)
(* error answered to a poll of it can end that, on any network             *)
(* (HomeVC.bookingStatus).                                                 *)
THEOREM PollingKept == Spec => PollingGoesOn
<1>1. IInv /\ PInv /\ [Next]_vars =>
        [\A h \in Homes :
           /\ home'[h].bk \in Bookings
           /\ home[h].bk = home'[h].bk => Polled(h) /\ status[home[h].bk] = "pending"
           => Polled(h)' \/ \E s \in Slots : Polls(s, h) /\ net[s].ans = "error"]_vars
  BY PollingStep
<1>. QED
  BY <1>1, Inductive, PollsTrue, PTL DEF Spec, PollingGoesOn

(* A DirectionVC follows the ride it was opened for, on screen or off it,  *)
(* until the ride is over or an error is answered to it; mixed-up bookings *)
(* are the one other way to lose it (checkRideStatus).                     *)
THEOREM FollowingKept == Spec => FollowingGoesOn
<1>1. IInv /\ PInv /\ [Next]_vars =>
        [\A v \in views' :
           (v \in views => Followed(v) /\ status[ride[v]] \in {"accepted", "started"})
           => \/ Followed(v)'
              \/ \E s \in Slots : /\ Follows(s, v)
                                  /\ \/ net[s].ans = "error"
                                     \/ net[s].ans = "pending" /\ AnyMixed]_vars
  BY FollowingStep
<1>. QED
  BY <1>1, Inductive, PollsTrue, PTL DEF Spec, FollowingGoesOn
=============================================================================
