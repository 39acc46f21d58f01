------------------------------ MODULE Booking ------------------------------
(***************************************************************************)
(* Booking a tow truck and following the ride: the HomeVC, DirectionVC,    *)
(* CancelRideVC and FeedbackVC screens, the requests they have in flight   *)
(* and the booking server they poll.                                       *)
(*                                                                         *)
(* Every handler runs on the main thread, so it is one atomic action; the  *)
(* answers of different requests arrive in any order.  The loader overlay  *)
(* is no guard: it is one shared view that any stopLoader() takes away     *)
(* (a pending poll does it on every answer), so the buttons of the visible *)
(* screen can always be pressed.                                           *)
(***************************************************************************)
EXTENDS Naturals, Sequences

CONSTANTS
  Bookings,   \* identifiers the server can give to bookings
  NoBooking,  \* the empty strBookingRequestID of a new HomeVC
  Views,      \* DirectionVC instances (bound: how many one launch creates)
  NoView,     \* the "view" of a screen that is not a DirectionVC
  Slots,      \* bound: requests and delayed calls in flight together
  MaxHomes,   \* bound: HomeVC instances one launch creates
  MaxStack,   \* bound: screens above HomeVC in its navigation controller
  Unreliable  \* TRUE if requests and answers can be lost or refused

ASSUME BookingAssumption ==
  /\ NoBooking \notin Bookings
  /\ NoView \notin Views
  /\ MaxHomes \in Nat \ {0}
  /\ MaxStack \in Nat \ {0}
  /\ Unreliable \in BOOLEAN

VARIABLES
  status,   \* booking -> what the server holds of it
  home,     \* HomeVC instance -> its fields
  homes,    \* the HomeVC instances in memory: the 8 s timer keeps them all
  cur,      \* the HomeVC at the root of the window's home tab
  ride,     \* DirectionVC instance -> its strBookingID
  views,    \* the DirectionVC instances in memory
  stack,    \* the screens above HomeVC cur, the visible one last
  net       \* slot -> the request or delayed call it holds

vars == <<status, home, homes, cur, ride, views, stack, net>>
-----------------------------------------------------------------------------
(* The server's view of a booking (external), as the app tells its answers *)
(* apart: "rejected" stands for "Not accepted" too, "started" for          *)
(* "reached".                                                              *)
Status == {"none", "pending", "rejected",
           "accepted", "started", "completed", "cancelled"}

Answered == {"accepted", "started", "completed", "cancelled"}

Homes == 1 .. MaxHomes
AnyBooking == Bookings \union {NoBooking}
AnyView == Views \union {NoView}

(* The fields of a HomeVC: its booking id, whether the pick-up address is  *)
(* known, whether the action sheet of a marker and the vehicle table are   *)
(* up; mixed is a history variable, see BookingAnswered.                   *)
NewHome == [bk |-> NoBooking, addr |-> FALSE, sheet |-> FALSE, table |-> FALSE,
            mixed |-> FALSE]

(* A slot: the kind of call, the HomeVC or DirectionVC whose closure waits *)
(* for it, the booking it names and the answer on its way back.            *)
HomeKinds == {"delay", "geocode", "book", "check"}
RideKinds == {"route", "ride"}
Kinds == HomeKinds \union RideKinds \union {"idle", "cancel", "rate"}
Answers == Status \union {"none", "Success", "failure", "error"}

Call(kind, h, v, b) ==
  [kind |-> kind, home |-> h, view |-> v, bk |-> b, ans |-> "none"]
Idle == Call("idle", 0, NoView, NoBooking)

Screen(vc, v, b) == [vc |-> vc, view |-> v, bk |-> b]

Top == stack[Len(stack)]
TopIs(vc) == stack # <<>> /\ Top.vc = vc /\ ~home[cur].sheet
HomeVisible == stack = <<>> /\ ~home[cur].sheet
OnStack(v) == \E i \in 1 .. Len(stack) : stack[i].vc = "direction" /\ stack[i].view = v
Tracked == {ride[v] : v \in {w \in views : OnStack(w)}}
RatingShown == \E i \in 1 .. Len(stack) : stack[i].vc = "feedback"

(* navigationController?.pushViewController and popViewController of a     *)
(* screen that is still part of the visible stack.                         *)
Push(screen) ==
  /\ Len(stack) < MaxStack
  /\ stack' = Append(stack, screen)
Pop == stack' = SubSeq(stack, 1, Len(stack) - 1)
Free(s) == net' = [net EXCEPT ![s] = Idle]
Becomes(s, call) == net' = [net EXCEPT ![s] = call]
Start(call) == \E s \in Slots : net[s] = Idle /\ Becomes(s, call)

Init ==
  /\ status = [b \in Bookings |-> "none"]
  /\ home = [h \in Homes |-> NewHome]
  /\ homes = {1}
  /\ cur = 1
  /\ ride = [v \in Views |-> NoBooking]
  /\ views = {}
  /\ stack = <<>>
  /\ net = [s \in Slots |-> Idle]
-----------------------------------------------------------------------------
(* Faulty variants of the handlers below: each breaks one property, which  *)
(* shows that the property depends on the code.                            *)

(* The branch for "rejected" is missing: only "pending" is told apart.     *)
OpensRideUnlessPending(a) == a \in Answered \union {"rejected"}

(* A pending booking is not asked for again.                               *)
StatusPendingOnce(s) ==
  /\ net[s].kind = "check" /\ net[s].ans = "pending"
  /\ Free(s)
  /\ UNCHANGED <<status, home, homes, cur, ride, views, stack>>

(* The ride is not asked for again once it is accepted.                    *)
RideGoesOnOnce(s) ==
  /\ net[s].kind = "ride" /\ net[s].ans \in {"accepted", "started"}
  /\ Free(s)
  /\ UNCHANGED <<status, home, homes, cur, ride, views, stack>>

(* A cancelled ride is rated like a completed one.                         *)
RideCancelledIsRated(s) ==
  /\ net[s].kind = "ride" /\ net[s].ans = "cancelled"
  /\ IF OnStack(net[s].view)
       THEN Push(Screen("feedback", NoView, NoBooking))
       ELSE UNCHANGED stack
  /\ Free(s)
  /\ UNCHANGED <<status, home, homes, cur, ride, views>>

(* The DirectionVC takes itself out of the stack, not the visible screen.  *)
RideCancelledLeavesStack(s) ==
  /\ net[s].kind = "ride" /\ net[s].ans = "cancelled"
  /\ stack' = SelectSeq(stack, LAMBDA x : x.view # net[s].view)
  /\ Free(s)
  /\ UNCHANGED <<status, home, homes, cur, ride, views>>

(* A failed ride poll closes the screen as a cancelled ride does.          *)
RideUnknownCloses(s) ==
  /\ net[s].kind = "ride"
  /\ net[s].ans \in Answers \ (Answered \union {"none"})
  /\ IF OnStack(net[s].view) THEN Pop ELSE UNCHANGED stack
  /\ Free(s)
  /\ UNCHANGED <<status, home, homes, cur, ride, views>>

(* The new HomeVC is not kept in memory by its timer.                      *)
MakeRootUnheld ==
  /\ cur < MaxHomes
  /\ cur' = cur + 1
  /\ UNCHANGED homes
  /\ stack' = <<>>
-----------------------------------------------------------------------------
(* HomeVC: choosing a truck and a vehicle.                                 *)

(* A tapped marker puts an action sheet over whatever is on screen; it     *)
(* stays there when a screen is pushed below it.                           *)
TapMarker ==
  /\ HomeVisible
  /\ home' = [home EXCEPT ![cur].sheet = TRUE]
  /\ UNCHANGED <<status, homes, cur, ride, views, stack, net>>

DismissSheet ==
  /\ home[cur].sheet
  /\ home' = [home EXCEPT ![cur].sheet = FALSE]
  /\ UNCHANGED <<status, homes, cur, ride, views, stack, net>>

(* "Booking request" on the sheet: the reverse geocoder is asked for the   *)
(* address and the vehicle table appears.                                  *)
ConfirmDriver ==
  /\ home[cur].sheet
  /\ home' = [home EXCEPT ![cur].sheet = FALSE, ![cur].table = TRUE]
  /\ Start(Call("geocode", cur, NoView, NoBooking))
  /\ UNCHANGED <<status, homes, cur, ride, views, stack>>

(* The geocoder answers; an error leaves the address as it was.            *)
GeocodeAnswered(s) ==
  /\ net[s].kind = "geocode"
  /\ \/ home' = [home EXCEPT ![net[s].home].addr = TRUE]
     \/ Unreliable /\ UNCHANGED home
  /\ Free(s)
  /\ UNCHANGED <<status, homes, cur, ride, views, stack>>

(* A row of the vehicle table: the request leaves two seconds later.       *)
SelectVehicle ==
  /\ HomeVisible
  /\ home[cur].table
  /\ home' = [home EXCEPT ![cur].table = FALSE]
  /\ Start(Call("delay", cur, NoView, NoBooking))
  /\ UNCHANGED <<status, homes, cur, ride, views, stack>>

(* bookingRequest: returns at once while the address is unknown.           *)
BookingRequest(s) ==
  /\ net[s].kind = "delay"
  /\ IF home[net[s].home].addr
       THEN Becomes(s, Call("book", net[s].home, NoView, NoBooking))
       ELSE Free(s)
  /\ UNCHANGED <<status, home, homes, cur, ride, views, stack>>

(* Some other check of HomeVC h, of another booking, is in flight.         *)
ChecksAnother(h, b) ==
  \E t \in Slots : /\ net[t].kind = "check" /\ net[t].home = h
                   /\ net[t].bk \notin {b, NoBooking}

(* The answer to user_booking_request: the id replaces the HomeVC's and is *)
(* polled.  "mixed" remembers that a poll of another id was in flight.     *)
BookingAnswered(s) ==
  /\ net[s].kind = "book" /\ net[s].ans # "none"
  /\ LET h == net[s].home
         b == net[s].bk
     IN IF net[s].ans = "Success"
          THEN /\ home' = [home EXCEPT ![h].bk = b,
                                       ![h].mixed = @ \/ ChecksAnother(h, b)]
               /\ Becomes(s, Call("check", h, NoView, b))
          ELSE Free(s) /\ UNCHANGED home
  /\ UNCHANGED <<status, homes, cur, ride, views, stack>>

(* bookingStatus, the answer to check_booking_status.  "pending" asks      *)
(* again, with the id the HomeVC holds by now.  Any answer that is neither *)
(* that nor a refusal opens a DirectionVC for the id held by now.  A       *)
(* HomeVC that is no longer in the window has no navigation controller to  *)
(* push on.                                                                *)
OpensRide(a) == a \in Answered

StatusPending(s) ==
  /\ net[s].kind = "check" /\ net[s].ans = "pending"
  /\ Becomes(s, Call("check", net[s].home, NoView, home[net[s].home].bk))
  /\ UNCHANGED <<status, home, homes, cur, ride, views, stack>>

StatusRefused(s) ==
  /\ net[s].kind = "check"
  /\ \/ net[s].ans \in {"rejected", "failure", "error"}
     \/ OpensRide(net[s].ans) /\ net[s].home # cur
  /\ Free(s)
  /\ UNCHANGED <<status, home, homes, cur, ride, views, stack>>

(* A DirectionVC v for booking b: viewDidLoad and viewWillAppear register  *)
(* the observers that keep it; the first location makes it ask for a route.*)
ShowRide(v, b) ==
  /\ views' = views \union {v}
  /\ ride' = [ride EXCEPT ![v] = b]
  /\ Push(Screen("direction", v, b))

AskRoute(s, v) == Becomes(s, Call("route", 0, v, NoBooking))

StatusAccepted(s) ==
  /\ net[s].kind = "check" /\ OpensRide(net[s].ans) /\ net[s].home = cur
  /\ \E v \in Views \ views : ShowRide(v, home[cur].bk) /\ AskRoute(s, v)
  /\ UNCHANGED <<status, home, homes, cur>>

(* appCameToForeground, of every HomeVC in memory.                         *)
HomeForeground(h) ==
  /\ h \in homes
  /\ Start(Call("check", h, NoView, home[h].bk))
  /\ UNCHANGED <<status, home, homes, cur, ride, views, stack>>
-----------------------------------------------------------------------------
(* DirectionVC: following the ride.                                        *)

(* LoadMapRoute, then two seconds later checkRideStatus; after an error    *)
(* nothing polls.                                                          *)
RouteAnswered(s) ==
  /\ net[s].kind = "route" /\ net[s].ans # "none"
  /\ LET v == net[s].view
     IN IF net[s].ans = "Success"
          THEN Becomes(s, Call("ride", 0, v, ride[v]))
          ELSE Free(s)
  /\ UNCHANGED <<status, home, homes, cur, ride, views, stack>>

(* checkRideStatus, the answer to check_status_after_accept_booking.       *)
RideGoesOn(s) ==
  /\ net[s].kind = "ride" /\ net[s].ans \in {"accepted", "started"}
  /\ Becomes(s, Call("ride", 0, net[s].view, ride[net[s].view]))
  /\ UNCHANGED <<status, home, homes, cur, ride, views, stack>>

RideCompleted(s) ==
  /\ net[s].kind = "ride" /\ net[s].ans = "completed"
  /\ IF OnStack(net[s].view)
       THEN Push(Screen("feedback", NoView, NoBooking))
       ELSE UNCHANGED stack
  /\ Free(s)
  /\ UNCHANGED <<status, home, homes, cur, ride, views>>

(* popViewController removes the visible screen, whichever it is.          *)
RideCancelled(s) ==
  /\ net[s].kind = "ride" /\ net[s].ans = "cancelled"
  /\ IF OnStack(net[s].view) THEN Pop ELSE UNCHANGED stack
  /\ Free(s)
  /\ UNCHANGED <<status, home, homes, cur, ride, views>>

RideUnknown(s) ==
  /\ net[s].kind = "ride"
  /\ net[s].ans \in Answers \ (Answered \union {"none"})
  /\ Free(s)
  /\ UNCHANGED <<status, home, homes, cur, ride, views, stack>>

(* checkRide, of every DirectionVC in memory: the Firebase observer keeps  *)
(* the popped ones.                                                        *)
RideForeground(v) ==
  /\ v \in views
  /\ Start(Call("ride", 0, v, ride[v]))
  /\ UNCHANGED <<status, home, homes, cur, ride, views, stack>>
-----------------------------------------------------------------------------
(* CancelRideVC and FeedbackVC.                                            *)

PressCancelRide ==
  /\ TopIs("direction")
  /\ Push(Screen("cancel", NoView, Top.bk))
  /\ UNCHANGED <<status, home, homes, cur, ride, views, net>>

BackFromCancel ==
  /\ TopIs("cancel")
  /\ Pop
  /\ UNCHANGED <<status, home, homes, cur, ride, views, net>>

SubmitCancel ==
  /\ TopIs("cancel")
  /\ Start(Call("cancel", 0, NoView, Top.bk))
  /\ UNCHANGED <<status, home, homes, cur, ride, views, stack>>

(* makeRoot: a new tab bar with a new HomeVC replaces the window's root;   *)
(* the old HomeVC stays in memory with its calls.                          *)
MakeRoot ==
  /\ cur < MaxHomes
  /\ cur' = cur + 1
  /\ homes' = homes \union {cur + 1}
  /\ stack' = <<>>

CancelAnswered(s) ==
  /\ net[s].kind = "cancel" /\ net[s].ans # "none"
  /\ IF net[s].ans = "Success" THEN MakeRoot ELSE UNCHANGED <<cur, homes, stack>>
  /\ Free(s)
  /\ UNCHANGED <<status, home, ride, views>>

SkipFeedback ==
  /\ TopIs("feedback")
  /\ MakeRoot
  /\ UNCHANGED <<status, home, ride, views, net>>

SubmitFeedback ==
  /\ TopIs("feedback")
  /\ Start(Call("rate", 0, NoView, NoBooking))
  /\ UNCHANGED <<status, home, homes, cur, ride, views, stack>>

RatingAnswered(s) ==
  /\ net[s].kind = "rate" /\ net[s].ans # "none"
  /\ IF net[s].ans = "Success" THEN MakeRoot ELSE UNCHANGED <<cur, homes, stack>>
  /\ Free(s)
  /\ UNCHANGED <<status, home, ride, views>>

(* The process ends and is launched again: nothing of a booking is read    *)
(* back (AppDelegate writes no screen for it), only the server remembers.  *)
Relaunch ==
  /\ home' = [h \in Homes |-> NewHome]
  /\ homes' = {1} /\ cur' = 1
  /\ ride' = [v \in Views |-> NoBooking]
  /\ views' = {}
  /\ stack' = <<>>
  /\ net' = [s \in Slots |-> Idle]
  /\ UNCHANGED status
-----------------------------------------------------------------------------
(* The server and the network (external).                                  *)

Answer(s, a) == net' = [net EXCEPT ![s].ans = a]

(* A booking request makes a new pending booking.                          *)
ServeBooking(s) ==
  /\ net[s].kind = "book" /\ net[s].ans = "none"
  /\ \E b \in Bookings :
       /\ status[b] = "none"
       /\ status' = [status EXCEPT ![b] = "pending"]
       /\ net' = [net EXCEPT ![s].bk = b, ![s].ans = "Success"]
  /\ UNCHANGED <<home, homes, cur, ride, views, stack>>

(* Both status calls read the booking; there is none for the empty id.     *)
ServeStatus(s) ==
  /\ net[s].kind \in {"check", "ride"} /\ net[s].ans = "none"
  /\ Answer(s, IF net[s].bk = NoBooking THEN "failure" ELSE status[net[s].bk])
  /\ UNCHANGED <<status, home, homes, cur, ride, views, stack>>

(* The user's cancellation succeeds while the ride is not over.            *)
ServeCancel(s) ==
  /\ net[s].kind = "cancel" /\ net[s].ans = "none"
  /\ IF status[net[s].bk] \in {"pending", "accepted", "started"}
       THEN /\ status' = [status EXCEPT ![net[s].bk] = "cancelled"]
            /\ Answer(s, "Success")
       ELSE Answer(s, "failure") /\ UNCHANGED status
  /\ UNCHANGED <<home, homes, cur, ride, views, stack>>

ServeOther(s) ==
  /\ net[s].kind \in {"route", "rate"} /\ net[s].ans = "none"
  /\ Answer(s, "Success")
  /\ UNCHANGED <<status, home, homes, cur, ride, views, stack>>

(* A request or its answer is lost (errorBlock), or refused.  Ids are used *)
(* up at a bound, so a booking request can then be refused in any case.    *)
Requests == Kinds \ {"idle", "delay", "geocode"}
Lose(s) ==
  /\ net[s].kind \in Requests
  /\ \/ Unreliable /\ net[s].ans # "error"
     \/ /\ net[s].kind = "book" /\ net[s].ans = "none"
        /\ \A b \in Bookings : status[b] # "none"
  /\ Answer(s, "error")
  /\ UNCHANGED <<status, home, homes, cur, ride, views, stack>>

(* The driver's side of a booking.                                         *)
DriverActs(b) ==
  /\ \E new \in Status :
       /\ <<status[b], new>> \in
            {<<"pending", "accepted">>, <<"pending", "rejected">>,
             <<"accepted", "started">>, <<"started", "completed">>,
             <<"accepted", "cancelled">>, <<"started", "cancelled">>}
       /\ status' = [status EXCEPT ![b] = new]
  /\ UNCHANGED <<home, homes, cur, ride, views, stack, net>>
-----------------------------------------------------------------------------
User == \/ TapMarker \/ DismissSheet \/ ConfirmDriver \/ SelectVehicle
        \/ PressCancelRide \/ BackFromCancel \/ SubmitCancel
        \/ SkipFeedback \/ SubmitFeedback
        \/ \E h \in Homes : HomeForeground(h)
        \/ \E v \in Views : RideForeground(v)

Handle(s) == \/ GeocodeAnswered(s) \/ BookingRequest(s) \/ BookingAnswered(s)
             \/ StatusPending(s) \/ StatusRefused(s) \/ StatusAccepted(s)
             \/ RouteAnswered(s) \/ RideGoesOn(s) \/ RideCompleted(s)
             \/ RideCancelled(s) \/ RideUnknown(s)
             \/ CancelAnswered(s) \/ RatingAnswered(s)

Serve(s) == ServeBooking(s) \/ ServeStatus(s) \/ ServeCancel(s) \/ ServeOther(s)

Next == \/ User
        \/ Relaunch
        \/ \E s \in Slots : Handle(s) \/ Serve(s) \/ Lose(s)
        \/ \E b \in Bookings : DriverActs(b)

Spec == Init /\ [][Next]_vars
-----------------------------------------------------------------------------
HomeFields == [bk : AnyBooking, addr : BOOLEAN, sheet : BOOLEAN, table : BOOLEAN,
               mixed : BOOLEAN]
Calls == {c \in [kind : Kinds, home : 0 .. MaxHomes, view : AnyView,
                 bk : AnyBooking, ans : Answers] :
            /\ c.kind \in HomeKinds => c.home \in Homes
            /\ c.kind \in RideKinds => c.view \in Views}
Screens == [vc : {"direction", "cancel", "feedback"}, view : AnyView, bk : AnyBooking]

(* The types of the variables; the root HomeVC is one of those in memory   *)
(* and every call in flight belongs to a HomeVC or DirectionVC that exists.*)
TypeOK ==
  /\ status \in [Bookings -> Status]
  /\ home \in [Homes -> HomeFields]
  /\ homes \subseteq Homes /\ cur \in homes
  /\ ride \in [Views -> AnyBooking]
  /\ views \subseteq Views
  /\ stack \in Seq(Screens)
  /\ net \in [Slots -> Calls]

(* HomeVC.bookingStatus opens the tracking screen with the id it holds     *)
(* when the answer arrives (HomeVC.swift:554), not the id it asked about.  *)
(* Unless two bookings of one HomeVC were mixed up in flight, a ride that  *)
(* is on screen was accepted by a driver.                                  *)
TrackedRideWasAccepted ==
  home[cur].mixed \/ \A b \in Tracked : b \in Bookings /\ status[b] \in Answered

(* The cancel form always lies directly on the DirectionVC of the booking  *)
(* it would cancel, whatever other chains push and pop meanwhile.          *)
CancelAboveItsRide ==
  \A i \in 1 .. Len(stack) : stack[i].vc = "cancel" =>
    i > 1 /\ stack[i - 1].vc = "direction" /\ stack[i - 1].bk = stack[i].bk

(* The rating form is shown only above the screen of a completed ride.     *)
FeedbackAfterCompletion ==
  \A i \in 1 .. Len(stack) : stack[i].vc = "feedback" =>
    \E j \in 1 .. i - 1 : /\ stack[j].vc = "direction"
                          /\ stack[j].bk \in Bookings
                          /\ status[stack[j].bk] = "completed"

(* A HomeVC polls the booking it is given, and a network that loses calls  *)
(* cannot end that while the booking is pending but by an error answered   *)
(* to it (HomeVC.swift:527-572): no refusal or acceptance of another       *)
(* booking, replaced window or return to the foreground does, whichever    *)
(* chain of answers is whose by then.                                      *)
Polls(s, h) == net[s].kind = "check" /\ net[s].home = h /\ net[s].bk = home[h].bk
Polled(h) == \E s \in Slots : Polls(s, h)
PollingGoesOn ==
  [][\A h \in Homes :
       /\ home'[h].bk \in Bookings
       /\ home[h].bk = home'[h].bk => Polled(h) /\ status[home[h].bk] = "pending"
       => Polled(h)' \/ \E s \in Slots : Polls(s, h) /\ net[s].ans = "error"]_vars

(* Nor the following of a ride that goes on, once a DirectionVC has opened *)
(* it (DirectionVC.swift:430-476), also after it has left the screen; only *)
(* a ride opened too early by mixed-up bookings is left at its "pending".  *)
Follows(s, v) == net[s].kind \in RideKinds /\ net[s].view = v
Followed(v) == \E s \in Slots : Follows(s, v)
AnyMixed == \E h \in Homes : home[h].mixed
FollowingGoesOn ==
  [][\A v \in views' :
       (v \in views => Followed(v) /\ status[ride[v]] \in {"accepted", "started"})
       => \/ Followed(v)'
          \/ \E s \in Slots : /\ Follows(s, v)
                              /\ \/ net[s].ans = "error"
                                 \/ net[s].ans = "pending" /\ AnyMixed]_vars

(* The inductive invariant behind the three: a call in flight names what   *)
(* its HomeVC or DirectionVC holds and its answer is still true enough, a  *)
(* DirectionVC on screen is in memory and shows its own booking.           *)
CallOK(c) ==
  /\ c.kind \in RideKinds => c.view \in views
  /\ c.kind = "ride" => c.bk = ride[c.view]
  /\ c.kind = "cancel" => c.bk \in Bookings
  /\ c.kind = "book" /\ c.ans = "Success" => c.bk \in Bookings
  /\ c.kind = "check" /\ c.bk # NoBooking => home[c.home].bk # NoBooking
  /\ c.kind = "check" /\ ~home[c.home].mixed => c.bk \in {NoBooking, home[c.home].bk}
  /\ c.kind \in {"check", "ride"} /\ c.ans \in Answered =>
       c.bk \in Bookings /\ status[c.bk] \in Answered
  /\ c.kind = "ride" /\ c.ans = "completed" => status[c.bk] = "completed"

ScreenOK(x) ==
  /\ x.vc = "cancel" => x.bk \in Bookings
  /\ x.vc = "direction" => /\ x.view \in views
                           /\ x.bk = ride[x.view] /\ x.bk \in Bookings
                           /\ home[cur].mixed \/ status[x.bk] \in Answered

StackOK ==
  /\ \A i \in 1 .. Len(stack) : ScreenOK(stack[i])
  /\ CancelAboveItsRide
  /\ FeedbackAfterCompletion

IInv == TypeOK /\ (\A s \in Slots : CallOK(net[s])) /\ StackOK

(* What PollingGoesOn and FollowingGoesOn need besides: an answer that ends *)
(* a chain of polls is still true, and a DirectionVC in memory follows a   *)
(* ride that was accepted unless bookings were mixed up.                   *)
PollOK(c) ==
  /\ c.kind = "check" /\ c.bk \in Bookings =>
       c.ans # "failure" /\ (c.ans = "rejected" => status[c.bk] = "rejected")
  /\ c.kind = "route" => c.ans \in {"none", "Success", "error"}
  /\ c.kind = "ride" =>
       /\ c.ans \notin {"failure", "Success"}
       /\ c.ans \in {"rejected", "cancelled"} => status[c.bk] = c.ans
       /\ c.ans = "pending" => AnyMixed

RidesKnown ==
  \A v \in views : /\ ride[v] \in Bookings
                   /\ AnyMixed \/ status[ride[v]] \in Answered

PInv == (\A s \in Slots : PollOK(net[s])) /\ RidesKnown

(* What is on screen, seen without requests and screens, behaves as         *)
(* RideBoard: a ride leaves the screen only by makeRoot or a relaunch, or  *)
(* when a ride on screen was cancelled; no lost or refused call and no     *)
(* answer to an older HomeVC changes what the user sees.                   *)
Board == INSTANCE RideBoard
           WITH shown <- Tracked, rating <- RatingShown, mixed <- home[cur].mixed
ImplementsRideBoard == Board!Spec
-----------------------------------------------------------------------------
(* The network answers every request and the main thread runs every        *)
(* handler; users, drivers and relaunches act or not.                      *)
FairSpec == Spec /\ \A s \in Slots : WF_vars(Handle(s)) /\ WF_vars(Serve(s))

Full == views = Views \/ Len(stack) = MaxStack

(* A poll of a pending booking is kept up until a driver accepts: an       *)
(* accepted ride that the visible HomeVC is polling comes on screen,       *)
(* unless another booking or window takes its place or a bound is reached. *)
AcceptedRideIsShown ==
  \A b \in Bookings :
    (/\ \E s \in Slots : net[s].kind = "check" /\ net[s].home = cur /\ net[s].bk = b
     /\ home[cur].bk = b
     /\ status[b] \in Answered)
      ~> (b \in Tracked \/ home[cur].bk # b \/ Full)

(* A DirectionVC keeps polling its ride (DirectionVC.swift:449,457): when  *)
(* the ride is completed the rating form comes up, unless the DirectionVC  *)
(* left the screen or a bound is reached.  Not so for one that was opened  *)
(* too early by mixed-up bookings: a "pending" answer ends its polling.    *)
CompletedRideAsksForRating ==
  \A v \in Views :
    (/\ \E s \in Slots : net[s].kind \in {"route", "ride"} /\ net[s].view = v
     /\ v \in views /\ OnStack(v) /\ ~home[cur].mixed
     /\ ride[v] \in Bookings /\ status[ride[v]] = "completed")
      ~> (RatingShown \/ ~OnStack(v) \/ Len(stack) = MaxStack)
=============================================================================
