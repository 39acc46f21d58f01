# A model of Express Assist for iOS

Express Assist (`src/ExpressAssist/ExpressAssist`) is a Swift application with
which a driver whose vehicle broke down signs in, registers and pays for a
vehicle, books a tow truck near by and follows its ride. This directory holds
TLA+ modules of its logic, the TLC configurations that check them on small
instances and proofs, checked by the TLA+ proof system, of what holds for
instances of any size.

## 1. The system

There is one process. All of its own code runs on the main thread: buttons,
timers, answers of the network library (Alamofire calls its blocks on the main
queue), table callbacks. So a handler is never interrupted, and everything that
can go wrong lies *between* handlers: several calls are in flight together, are
answered in any order, late, or not at all, while the screen that made them is
covered, has been left, or belongs to a window that was replaced.

| component | source | state it keeps | operations | talks to |
|---|---|---|---|---|
| Launch and session | `AppDelegate`, `Common Files/Data.swift`, `ProfileVC` | `UserDefaults`: `isLogin`, `user_id`, `token`, `is_paid`, `vehicle_number`, profile texts; the window's root | `setRootVC`, `manageTabBar`, logout | every screen reads and writes the defaults |
| Sign-in and registration | `LoginVC`, `SignupVC`, `OTPVC` | number being signed in (`strMobileNumber`, `dicPara`), the code asked for | log in, register, ask for a code, verify | account server, defaults, `AddVehicleVC` |
| One-time password entry | `VPMOTPView`, `VPMOTPTextField`, `OTPVC` delegate | texts and secure data of the fields, first responder, `enteredOtp` | key, paste, delete, tap | `OTPVC` (three delegate calls) |
| Vehicles | `AddVehicleVC`, `MyVehicleVC` | `arrayCarList`, deletion alert | upload, list, delete, renew | account server, defaults, plan and payment |
| Subscription and payment | `SubscriptionPlanVC`, `PaymentVC` | vehicle to pay for, `isfromCreditCard` | open plan, follow the pages of the payment site, record the payment | payment site, account server, defaults, a new window |
| Choice of driver and vehicle | `HomeVC`, `MyVehicleVC` | `arrayDriverLocation`, `strDriverID`, vehicle table, address | 8 s driver poll, marker, sheet, row, delayed request | server, geocoder, `vehicle_number` |
| Booking and tracking | `HomeVC`, `DirectionVC`, `CancelRideVC`, `FeedbackVC` | `strBookingRequestID`, a stack of screens, one ride per `DirectionVC` | request, two status polls, cancel, rate, return to the foreground | booking server, the driver through it |
| Loader overlay | `Common Files/Loader.swift` | one shared view | `startLoader(view)`, `stopLoader()` | every call of every screen |
| Network layer | `Common Files/Network.swift` | none | eleven variants of a call with a success and an error block | Alamofire |
| Profile, complaints, notification setting, history | `ProfileVC`, `EditProfileVC`, `ComplainVC`, `NotificationVC`, `ServiceHistoryVC` | the typed texts, the complaint's picture and `isGetImage`, the switch | edit and save, pick a picture, complain, switch, log out | server, defaults (the profile's texts), loader, a new window |
| Language | `LanguageVC`, `ChooseLanguageVC`, `NSBundle+Language`, `AppDelegate` | defaults `en` and `ar`, the swizzled bundle, the texts screens took from it | choose, go back, new window, launch | all texts |
| Rating form | `FeedbackVC`, `ThirdParty/Rating/FloatRatingView` | the rating, twice; the masks of the stars; the confirm box | lay out, touch, confirm, submit | booking server, loader |
| Notification list, terms | `NotificationListVC`, `TermVC` | what was answered | one call | server, loader |
| Reachability, utilities | `NetworkConnection`, `Utils` | - | - | the system |
| Unused code | `AACarousel`, `SocketIOManager`, `LocationModel`, `OrderVC`, `PickVC`, ... | - | - | reached by nothing |
| Pods, storyboards, assets | `Podfile`, interface files | - | - | - |

### What makes it hard

* **Answers out of order.** `HomeVC.bookingStatus` opens the tracking screen
  with the booking id the screen holds when the answer *arrives*
  (`HomeVC.swift:554`). `LoginVC.login` writes `is_paid` before it looks whether
  there is such an account (`LoginVC.swift:82`). A second logout can be answered
  after somebody else has signed in.
* **Screens that outlive their window.** The repeating timer retains a `HomeVC`,
  the Firebase observer a `DirectionVC`; both go on polling when nobody sees them.
* **Pops by position.** A cancelled ride pops whatever screen is on top
  (`DirectionVC.swift:460`), which may be the cancel form, the rating form or
  another ride's screen.
* **An overlay that is not counted.** Every `stopLoader` takes the loader away
  from whichever screen it covers, so the button that is meant to be blocked can
  be pressed again; and an upload whose response is no JSON calls neither block
  (`Network.swift:429`), so the loader stays.
* **State read twice.** `PaymentVC` reads `user_id` when it posts, the upload
  read the token long before. `HomeVC` reads the driver and the vehicle number
  two seconds after the row was chosen. A deletion is confirmed in an alert under
  which the table may be loaded anew.
* **Polling chains.** A pending booking and a ride are each followed by one chain
  of answers, every one of which sends the next call; a broken link ends it.
* **One answer, several writers.** The profile's texts in `UserDefaults` are
  written by every login and by every update's answer (`EditProfileVC.swift:146`),
  for whoever is signed in by then; the notification status at the server is
  written by its switch and by logging out (`ProfileVC.swift:122`).
* **What was set up before.** Labels keep the language they were loaded with,
  stars the masks of the frame they had; both must be made anew when what they
  depend on changes.
* **Restarts.** The next launch sees `UserDefaults` only, looks at `is_paid`
  before `isLogin`, at `ar` where other screens look at `en`, and does not read
  the saved booking id back.

### What correctness means, by component

| component | it is correct when |
|---|---|
| Session, sign-in | whoever is signed in has an account; tabs are shown to a signed-in user |
| Vehicles, payment | a payment is recorded for the account that owns the vehicle; the vehicle deleted is the one confirmed |
| Loader | a covered screen waits for a call of its own, and is uncovered in the end |
| Code entry | the user cannot get past an empty field; the code compared is the code on screen |
| Choice | what is requested is what was chosen; a list that shrank under the sheet does no harm |
| Profile | the texts on the device are the server's; whoever signed out gets no notifications; a complaint carries a picture |
| Language | the language chosen last is spoken, and by everything on screen |
| Rating form | the stars end under the finger, what is sent is what they show, a ride is rated once |
| Booking, tracking | a ride on screen was accepted, its rating is asked for when it is completed, its cancel form cancels it, an accepted ride is shown |

The hazards themselves are listed, each at its line and with the properties that
would catch it, in `PROJECT.json`.

## 2. The modules

| module | what it is |
|---|---|
| `RideBoard` | abstract: what booking promises a user, without screens or calls |
| `Booking` | `HomeVC`, `DirectionVC`, `CancelRideVC`, `FeedbackVC`, their calls and the booking server; implements `RideBoard` |
| `BookingProofs`, `BookingRefinement` | theorems about `Booking`; that it implements `RideBoard` |
| `OtpEntry`, `OtpEntryProofs` | the one-time password row and its delegate; theorems |
| `Accounts` | abstract: what the application and its server promise about accounts, vehicles and payments |
| `Session` | launch, sign-in, registration, vehicle upload, payment, tabs, logout, loader and account server; implements `Accounts` |
| `SessionProofs`, `SessionRefinement` | theorems about `Session`; that it implements `Accounts` |
| `TowRequest`, `TowRequestProofs` | what a tow request names: driver poll, sheet, vehicle table, vehicle number, vehicle list and deletion; theorems |
| `Language` | the language of the texts, a component that can run by itself |
| `Profile` | the profile tab and its pages, composed with `Language`; a behaviour of `Profile` is one of `Language` |
| `ProfileProofs` | theorems about `Language`, that `Profile` keeps to it, and about `Profile` |
| `Rating`, `RatingProofs` | the stars of the rating form and the call that sends them; theorems |
| `MC...` | symmetry sets, and a bound, for the runs of these modules |

`Booking` and `TowRequest` look at `HomeVC` from two sides: `TowRequest` ends
where a request is sent, `Booking` begins there and leaves the choice of driver
and vehicle open. `Session` has every screen up to the tabs and sees `HomeVC`
only as a poll that may stop the loader. `Profile` has the sign-in screen and two
tabs of `Session` again, now with what an account's profile says; its accounts
are paid for. `Booking` decides when the rating form comes and what its answer
does to the window, `Rating` what happens on it.

### Common conventions

* One action is one handler, with everything it calls. The answer block of a
  call is one action per branch.
* `net` maps a bounded set of slots to calls. A slot goes from idle to a call
  without an answer (a button, timer or answer), to an answered call (a *server*
  action: the server's state changes here) and back to idle or to the next call
  of a chain (the answer block). The order in which slots are answered is free,
  and `Lose` refuses or drops a call before or after it was served.
* Closures keep their screen: a call carries the `HomeVC`, the `DirectionVC` or
  the position of the screen that made it; when that screen leaves, UIKit's
  `navigationController?` of it is nil and its pushes do nothing.
* Servers, the payment site, the geocoder and UIKit are modelled from what the
  code relies on, and are marked external in the map.
* History variables never influence other variables; each is marked in its
  module. They name the one interleaving a property excludes, so that the
  property says the code has *no other* way to go wrong.
* A definition under "Faulty variants" is used by no specification. Each is a
  plausible mistake in the handler named in its comment and breaks the property
  that handler is responsible for.

### Booking

| action | code |
|---|---|
| `TapMarker`, `DismissSheet`, `ConfirmDriver` | `HomeVC.mapView(didTap)` and its sheet (376-405) |
| `GeocodeAnswered` | `convertLatLongToAddress` (602) |
| `SelectVehicle`, `BookingRequest`, `BookingAnswered` | row, 2 s delay, `bookingRequest` (209, 467) |
| `StatusPending`, `StatusRefused`, `StatusAccepted`, `HomeForeground` | `bookingStatus` (514) and `appCameToForeground` |
| `RouteAnswered`, `RideGoesOn`, `RideCompleted`, `RideCancelled`, `RideUnknown`, `RideForeground` | `DirectionVC`'s route and `bookingStatus` |
| `PressCancelRide`, `BackFromCancel`, `SubmitCancel`, `CancelAnswered` | `CancelRideVC` |
| `SkipFeedback`, `SubmitFeedback`, `RatingAnswered` | `FeedbackVC` |
| `Relaunch` | a new process |
| `ServeBooking`, `ServeStatus`, `ServeCancel`, `ServeOther`, `DriverActs`, `Lose` | booking server, driver, network |

`home[h]` holds the fields of each `HomeVC` in memory (several, since the timer
keeps them), `ride[v]` the booking of each `DirectionVC`, `stack` the screens
above the current `HomeVC`. `mixed` is set when a booking answer overwrites the
id while a status check of the old id is in flight.

### OtpEntry

`text` and `secure` are the fields' texts and `secureEntryData`, `focus` the first
responder, `entered` the code `OTPVC` keeps, `told` the delegate calls of the
last key. `Tap`, `Change`, `EraseBefore` and `Erase` are
`shouldBeginEditing` and the branches of `shouldChangeCharactersIn`;
`MayEdit` is `isPreviousFieldsEntered`, `Calculate` is
`calculateEnteredOTPSTring`.

### Session

`stack` is the window's navigation controller (or the vehicle tab's), `tab` the
selected tab, `cover` the place of the screen under the loader, `isLogin`, `id`
and `flag` the defaults. The comment of each action names its handler; the
launch is `LaunchVehicle`, `LaunchLogin` or `LaunchHome`, the three branches of
`setRootVC`. Account data is abstracted to the phone number. Three history
variables: `bypass` (this launch found `is_paid` "no" and nobody signed in),
`mixed` (an account was written by the answer of a screen that was not on top),
`hung` (an upload was answered by neither block).

`Accounts` has no screens and no calls. Its variables are `Session`'s
`members`, `owner`, `payments`, `isLogin`, `id`, `flag` and `mixed`, so the
mapping is the identity on them: an answer that signs in is `SignIn`, one that
only writes `is_paid` is `Mark`, the server's registrations, uploads and
recorded payments are `Join`, `Own` and `Pay`, and everything else, launches
included, is a stuttering step.

### TowRequest

`home.near` is the driver at `getIndex` of the last list. `getIndex` stays 0:
`didTap` handles every tap itself, so the map never asks for the info window
that would set it, and every marker leads to the first driver of the *current*
list. `number` is `vehicle_number` with its writers: the row (`SelectVehicle`),
the first vehicle of `MyVehicleVC`'s list (`ListAnswered`), a recorded payment
(`PaymentRecorded`, "" for a renewal). `alert` is the deletion alert with the
vehicle its closure captured. A call's `by` lists which of the user's picks was
made or written anew before the delayed request fired.

### Language and Profile

`Language` holds the defaults `en` and `ar`, the language of the swizzled bundle,
and for everything that keeps its texts the language in which it was loaded: tab
titles and `HomeVC` (`titles`), `ProfileVC` (`texts`), the two screens on which a
language is chosen (`picker`).

| action | code |
|---|---|
| `Choose` | `btnLangEng`, `btnlangArbic` of `LanguageVC` and `ChooseLanguageVC`, with `Bundle.setLanguage` |
| `OpenPicker`, `BackFromPicker` | `ProfileVC.btnLanguage`, `ChooseLanguageVC.viewDidLoad` and `btnBack` |
| `NewWindow`, `ShowTab` | a new root view controller, a tab |
| `LaunchSpeaking` | `didFinishLaunchingWithOptions`, which looks at `ar` |

`Profile` conjoins these with what else its handlers do. A profile's four texts
are one value; `name` is the one in `UserDefaults`, `profile` the server's. `page`
is the screen above `ProfileVC`, `modal` what is presented on it; a call's `here`
says whether the screen of an upload is still there to present its alert.

| action | code |
|---|---|
| `SendOTP`, `SignedIn` | `LoginVC` for an account that is paid for |
| `Logout`, `LoggedOut` | `btnLogout`, `updateNotificationOnServer`, `myHandler` |
| `OpenPage`, `OpenHistory`, `OpenLanguage`, `Back` | `ProfileVC`'s buttons; `btnBack` and OK of the alerts |
| `Type`, `SaveProfile`, `ProfileSaved` | `EditProfileVC`'s fields, `uploadProfileOnServer` |
| `TapPicture`, `ChooseSource`, `CancelSheet`, `ClosePicker` | `showAlert`, `getImage`, `imagePickerController` of `EditProfileVC` and `ComplainVC` |
| `Submit`, `Complained` | `ComplainVC.addComplain` |
| `Toggle`, `Answered` | `NotificationVC.switchBookingRequest` |
| `UploadWithoutValue`, `PollAnswered`, `Failed` | as in `Session` |
| `LaunchOn` | a new process |

History: `torn` (an update of the profile was in flight together with another one
or with a login, or its answer never came) and `raced` (since the last login a
logout was in flight together with a change of the notification status or another
login).

### Rating

`view` is `FloatRatingView.rating`, `told` what `FeedbackVC` keeps of it, both in
halves of a star; `fill` is how much of each full star its mask lets through,
`frame` the width the images have. Positions are integers in units of which a
quarter of a star has `Quarter`: the only places where `updateLocation` changes
its mind are the quarters and the edges. `Touch` is `touchesBegan` and
`touchesMoved` with `updateLocation`, the `didSet` of `rating` and
`isUpdating`; `Layout` is `layoutSubviews`, `Submit` and `Failed` are
`sendRatingOnServer`. History: `touch` (where the finger was last), `doubt` (the
loader was taken away by another screen's call, or the answer to a recorded rating
was lost).

## 3. What the runs check

| run | instance | shows |
|---|---|---|
| `booking` | 2 bookings, 2 tracking screens, 2 slots, 2 windows, 3 screens, lossy network | `TrackedRideWasAccepted`, `CancelAboveItsRide`, `FeedbackAfterCompletion`, `PollingGoesOn`, `FollowingGoesOn`, and that `Booking` implements `RideBoard` |
| `booking_live` | one tracking screen, reliable network, fair handlers and server | `AcceptedRideIsShown`, `CompletedRideAsksForRating` |
| `otp_entry` | 4 fields, 2 characters, pastes up to 2 | `EditsInOrder`, `CompleteCodeIsHeld` |
| `otp_order`, `otp_filled`, `otp_at_end` | the same | three comments of `VPMOTPView` that the code does not keep |
| `session` | 2 accounts, 1 vehicle, 2 slots, 5 screens, lossy network, relaunches | `SignedInIsMember`, `TabsNeedLogin`, `PaidByOwner`, `LoaderHasCall`, and that `Session` implements `Accounts` |
| `session_live` | 1 account, fair handlers and server | `LoaderEnds` |
| `tow_drivers` | 2 drivers, 1 vehicle that is added on the way, 2 slots | `SheetIsSafe`, `RequestIsAsChosen` |
| `tow_vehicles` | 1 driver, 2 vehicles, 2 slots | `RequestIsAsChosen`, `DeletedAsMeant`, `CrashesEmptied` |
| `profile` | 2 accounts, 2 profiles, 2 slots, lossy network, relaunches | `SpeaksChosen`, `OnlyBackMixes`, `SavedTextsKept`, `SignedOutIsQuiet`, `ComplaintHasPicture` |
| `rating` | 5 stars, quarters and gaps of one unit, 2 slots, lossy network | `LitUnderFinger`, `SentIsLit`, `RatedOnce` |

What the properties say:

* `TrackedRideWasAccepted`: unless two bookings of one `HomeVC` were mixed up in
  flight, a ride on screen has been accepted by a driver.
* `CancelAboveItsRide`, `FeedbackAfterCompletion`: although four handlers pop by
  position, a cancel form lies on the screen of its own ride and a rating form
  above a completed one.
* `ImplementsRideBoard`: what is on screen changes only as `RideBoard` allows. A
  ride leaves it by a new window, a relaunch or a cancelled ride; lost calls and
  answers to older windows change nothing.
* `PollingGoesOn`: a `HomeVC` polls the booking it is given, and while it is
  pending only an error answered to one of its polls ends that (or a relaunch);
  another booking's refusal, a new window or a return to the foreground never
  does, although a chain of polls changes the booking it asks about.
* `FollowingGoesOn`: a `DirectionVC` follows the ride it was opened for, also off
  screen, until the ride is over or an error is answered. The one other way to
  lose it is real: opened too early by mixed-up bookings, it is answered
  "pending", for which its answer block has no branch (`DirectionVC.swift:447-464`).
  For both, a call that is not made because the device is offline is one that was
  made and lost.
* `AcceptedRideIsShown`, `CompletedRideAsksForRating`: while calls are answered the
  two chains also lead somewhere, to the tracking screen and the rating form.
* `EditsInOrder`: the focus never passes an empty field. `CompleteCodeIsHeld`:
  when every field shows one character, `OTPVC` holds exactly that code,
  although a deletion does not clear it.
* `SignedInIsMember`, `TabsNeedLogin`: no order of login, code, registration,
  payment and logout answers leaves a session for an unknown number, or tabs
  for nobody. The one exception, `bypass`, is real: logging out leaves `is_paid`
  behind, and a launch that finds "no" opens `AddVehicleVC` without looking at
  `isLogin` (`AppDelegate.swift:82`).
* `PaidByOwner`: a payment is recorded for the account that added the vehicle,
  unless an account was written by a screen that was not on top.
* `ImplementsAccounts`: in between, nobody is signed in who is not a member, a
  vehicle keeps its owner, only owners pay, a login brings the mark of a payment
  along only for an account that made one, and no answer sets the mark before
  somebody has paid. Losses, launches and screens left behind change nothing.
* `LoaderHasCall`, `LoaderEnds`: the loader covers a screen only while that
  screen waits for an answer, and does so for ever only after an upload that was
  answered by neither block.
* `SheetIsSafe`: confirming the sheet reads no driver past the end of a list that
  became empty meanwhile, and no position that is not known.
* `RequestIsAsChosen`: in the two seconds before a request only another sheet,
  another row, a list answered to `MyVehicleVC` or a payment changes what it
  names; polls, checks, deletions and changes of tab do not.
* `DeletedAsMeant`: only a vehicle whose deletion was confirmed is deleted,
  although the table may be loaded anew under the alert.
* `CrashesEmptied`: `MyVehicleVC` reads the first element of the list it was
  answered (`MyVehicleVC.swift:142`); the process ends there only for an account
  all of whose vehicles were deleted on purpose, whatever lists and deletions
  cross.
* `SpeaksChosen`: after any choices, windows and launches the texts come in the
  language chosen last, although launches look at `ar` and other screens at `en`.
* `OnlyBackMixes`: what is on screen comes to mix languages in two ways only,
  `ChooseLanguageVC` left by its back button after a choice, or opened while no
  choice was ever made, when it shows Arabic as selected.
* `SavedTextsKept`: with no update in flight the texts on the device are the
  server's, over logouts, other accounts, replaced windows and launches, unless
  updates overlapped each other or a login or an answer was lost (`torn`).
* `SignedOutIsQuiet`: whoever has signed out has notifications disabled at the
  server, unless the logout raced the switch or a login (`raced`).
* `ComplaintHasPicture`: `isGetImage` is set before there is a picture and cleared
  when the next sheet opens; even so a complaint goes out with the default picture
  only when a picker gave none.
* `LitUnderFinger`: the light ends within a quarter of a star of the finger, for
  every branch of `updateLocation` (gaps, above and below, exact quarters, the
  least rating).
* `SentIsLit`: what Submit sends is what the stars show, although the rating is
  kept twice and its first value is written in two files.
* `RatedOnce`: only the shared loader keeps a second rating from going out, and
  it does, unless another screen's call takes it away.

### Findings

`VPMOTPView` documents three things its code does not do: `enteredOTP` is called
before `hasEnteredAllOTP` and not after it (line 41); `hasEntered` is true when
the *characters* are as many as the fields, which two pastes achieve with empty
fields left (line 48); once all fields are filled, editing is not confined to
the last one (line 102). `OTPVC` depends on none of them.

### Bounds, and why they are enough

* Two slots (as in every safety run): every hazard above is a race of one call with one other (a chain
  keeps its slot). Two is the least with which answers overtake each other; the
  proofs are for any number of slots.
* Two bookings, accounts, drivers or vehicles: one to be right and one to be
  mistaken for it. `Session` has one vehicle, since `PaidByOwner` relates a
  vehicle to *accounts*; the theorem is for any number.
* `MaxStack`: 3 screens above `HomeVC` hold a ride, a form and another ride. 5 in
  `Session` hold the way of a known number to its payment (language, login,
  vehicle, plan, payment); a registration reaches its vehicle (language, login,
  number, code, vehicle) and pays after a launch, whose window starts there.
* `MaxHomes` 2: one window replaced by another. `Views` 2: two rides on screen.
* `Profile` has two accounts with two profiles: an answer for the one that comes
  while the other is signed in, with a text that tells them apart. `Claimed`, a
  constraint of the run, ends behaviours in which both `torn` and `raced` hold:
  there nothing is claimed any more of texts and status, and the language and the
  complaint do not depend on the calls. The proofs have no such bound.
* `Rating` has the five stars of the storyboard with its least rating of one, and
  units so coarse that each quarter and each gap is one position: every branch is
  taken on every star. `Reach` is the range of positions; further out a finger
  rates as at its ends. `recorded` counts to 2, which is one more than allowed.
* `MaxInsert` 2 with 4 fields: the smallest paste that skips the counting.
* The liveness runs are smaller than the safety runs (one tracking screen, one
  account), since TLC checks liveness without symmetry.
* In `TowRequest` a window is replaced only when none of its calls is in flight
  (or the process ends): late answers to replaced windows are the subject of the
  other two modules.

### Fairness

`FairSpec` has weak fairness of handling an answer and of the server answering,
per slot, and nothing else. The main queue runs every block it is given, and
Alamofire ends every call with an answer or a timeout. Users, drivers, polls,
losses and launches may happen or not. `booking_live` assumes a network that
loses nothing, because the code ends a polling chain on an error
(`DirectionVC.swift:471`): with losses neither property is true until the
application returns to the foreground. That nothing *but* an error ends a chain
is `PollingGoesOn` and `FollowingGoesOn`, which need no fairness and hold over the
lossy network of `booking`. `LoaderEnds` excludes a process ended again
and again, an upload answered by neither block, and the bound on screens.

## 4. What is proved

All constants are arbitrary, within the named assumptions (`BookingAssumption`,
`OtpAssumption`, `SessionAssumption`, `TowRequestAssumption`, `ProfileAssumption`,
`RatingAssumption`: the null values are not among the others, bounds are positive,
an account has finitely many vehicles, the first rating is between the least and
all the stars).

* **Booking** (`BookingProofs`). `TypeCorrect`, `Inductive`, and from it
  `RideWasAccepted`, `CancelFormOnItsRide`, `RatingAfterCompletion`. The three
  properties are not inductive: an answer on its way back can carry what would
  break them. `IInv` adds what is true of calls (`CallOK`: a ride's poll names
  the booking its `DirectionVC` shows; an answer "accepted" or "completed" is
  still true at the server, since a booking never goes back) and of screens
  (`ScreenOK`: a tracking screen is in memory and shows its own ride). The
  step proof has a case per handler; popping and pushing are lemmas, so the
  handler that pops by position is the same case as the others. `PollsTrue`,
  `PollingKept` and `FollowingKept` are about the chains of polls. They need `PInv`
  besides: an answer that ends a chain (`PollOK`: a refusal, a cancellation, a
  failure) is still true when it is handled, and a `DirectionVC` in memory has a
  booking that was accepted, unless bookings were mixed up (`RidesKnown`). `PollSteps` sorts the
  steps once (a relaunch; a handler of a poll's answer; the server and the
  network; one that leaves polls alone), `PollWaits` says what a slot with a
  poll does in each, and `BookingGiven` that only a booking's answer gives a
  `HomeVC` another id; the two properties are then a case each on one slot.
* **Booking implements RideBoard** (`BookingRefinement`). `ImplementsBoard`. The
  mapping needs three facts beyond `IInv` (`RInv`): windows are made in order and
  only those in memory have calls, a later window starts unmixed, and a ride
  answered to be cancelled still is. What the board shows is then computed from
  the stack (`ShownBy`), with a lemma for what a push, a pop and a new window do to
  it, and every action is a step of the board or leaves it.
* **OtpEntry** (`OtpEntryProofs`). `OtpInductive`, and from it `OtpTyped`,
  `FocusInOrder` (`EditsInOrder`) and `RowIsHeld` (`CompleteCodeIsHeld`), for any
  number of fields, alphabet and paste length. Two ideas carry it.
  `isPreviousFieldsEntered` lets through only a field with no empty one before
  it, with the texts *after* the key. And `enteredOtp` is the concatenation of the
  texts, defined by recursion over the row: what it returns is shown by taking
  the least prefix for which it would be wrong (`LeastNatural`, from the
  well-foundedness of the naturals, `FlatExists`, `FlattenUnfolds`), which gives
  that it is a text (`FlattenTyped`) and that fields of one character each put the
  character of every field at the field's place (`FlattenSingles`). A key then
  tells `OTPVC` the row (`ChangeTold`), and a deletion, which tells it nothing,
  leaves a row that is not complete (`DeleteHeld`).
* **Session** (`SessionProofs`). `SessionTyped`, `LoaderCovered`,
  `SessionInductive`, and from it `SessionsOfMembers`, `TabsAfterLogin`,
  `PaymentsOfOwners`. `IInv` consists of: `CallsKnown` (a call's position still
  holds the kind of screen that made it, and an answer that signs in is about a
  member); `TabRoot`; `SignedInside` (past the sign-in screens somebody is signed
  in or `bypass`); `Owned` (unless `mixed`: sign-in screens lie below all others,
  and every vehicle a screen, a list, a call or a payment names belongs to the
  account that would use it). The proof goes variable by variable where it can:
  the user's actions, the answers, the server and the launches each preserve the
  shape of the calls, then the screens, then the ownership.
* **Session implements Accounts** (`SessionRefinement`). `ImplementsAccount`. `RInv`
  adds what the marks rest on: numbers in calls and forms were typed (`Numbers`);
  what a plan, a payment screen or a payment is about is a vehicle (`Vehicles`); the
  account on the device is registered (`AccountKnown`); an answer that says
  "paid" is still true, since payments are never taken back (`Marks`); and as
  long as nobody has signed in no screen or call names a vehicle (`NobodyYet`).
  `ScreensFrom` says once where every screen after a step comes from, and the
  invariant follows from it and from the shape of the calls.
* **TowRequest** (`TowRequestProofs`). `TowTyped`, `TowInductive`, and from it
  `SheetReadsWhatIsThere`, `RequestsAsChosen`, `DeletionsAsMeant`. `IInv` adds: a
  listed driver means a known position; an address or an open table means a
  chosen driver; a delayed request whose picks were not made anew holds what
  `HomeVC` and the defaults hold now; a deletion in flight names a confirmed
  vehicle. `CrashesWhenEmptied` needs one conjunct of its own: a vehicle the account
  came with is never one that is still to be added. The lemmas say once how a slot may change (`NetKept`, `NetSet`,
  `NetCrossed`, `NetSetCrossed`), and each handler is an instance of one.
* **Language and Profile** (`ProfileProofs`). `LanguageSpeaks` and `LanguageUnmixed`
  are about the component by itself, from `LanguageInv`: pickers open where they
  belong, a window with tabs has one language above the picker, and what is not
  loaded yet hides nothing. `ProfileRefinesLanguage` shows that `Profile` takes
  no other steps on `Language`'s variables, and `ChosenIsSpoken` and `MixedByBack`
  follow for the composition. `ProfileInductive` then gives `ProfileTypes`,
  `TextsAreKept`, `QuietAfterLogout` and `ComplaintsHavePictures`. Its parts:
  `Windows` (tabs are shown to whoever is signed in; pages lie on `ProfileVC` and
  what is presented on a page); `Saves` (until torn, an update overlaps no other
  and no login, is its account's, and the texts kept are the server's until it is
  recorded); `Logouts` (until raced, a logout meets no switch and no login, and its
  account's status is "disabled" from its answer on).
* **Rating** (`RatingProofs`). `RatingInductive`, and from it `RatingTypes`,
  `LightFollowsFinger`, `RideRatedOnce` and `SubmitSendsLit`, for every number of
  stars, least rating, width and gap. The arithmetic is in lemmas of its own:
  which star a position is under, what `Halves` gives there, and what `Part`
  shows of every other star; a pitch is a product of two variables, so the
  order of the stars' origins is proved before it is used. `IInv` adds that the
  two ratings agree, that stars with a frame show them, and `Once` (without doubt
  at most one call, under the loader, with no rating recorded before it).

### Only model-checked

Liveness (`AcceptedRideIsShown`, `CompletedRideAsksForRating`, `LoaderEnds`):
fairness and `ENABLED` are beyond the prover. Of the first two, what is proved is
that the chains go on (`PollingKept`, `FollowingKept`), not that they arrive.
Every other property of a passing run is a theorem.

## 5. Not modelled, and why

* `NotificationListVC` and `TermVC`: one call and its rows, and one of two files.
  `TermVC` (21) and `AddVehicleVC` (167) choose by `en` what other screens choose
  by the bundle; `SpeaksChosen` says that the two defaults never both hold.
* The checks of typed texts (empty fields, mail addresses): each is a local
  condition before a request, and a request that is not made is a step not taken.
* `NotificationVC` does not ask the server how its switch stands; it starts on, as
  the storyboard has it, and so does the model's.
* Other kinds of rating (`FloatRatingView` can be whole or continuous; the
  storyboard sets halves), the description's text, layout and the map.
* Which of the network layer's eleven variants a call uses: they differ in
  encoding and headers. How they answer, and how two of them do not, is modelled.
* Firebase's marker of the truck: it draws only. Its observer matters, since it
  keeps a `DirectionVC` alive, and is in `Booking` as that.
* Push notifications: the callbacks print; the post to `checkBooking` is
  commented out (`AppDelegate.swift:267`), so `HomeVC.bookingInfo` never runs.
* The 57 s timer that removes a tapped marker: `TowRequest` lets any marker be
  tapped while the list is not empty, which includes every case with fewer.
* `HomeVC.showAlert` and the semi-modal panel: nothing calls them.
* Repeated payment posts, the pages of the payment site and the meaning of a
  renewal are the server's; the model has what the application sends.
* Libraries, storyboards, images, and the code no path reaches. `Pods` holds
  third-party sources and is nearly all of the repository's lines; the
  application's own Swift is about 7,000 lines, of which the map names some 2,900,
  and most of the others are layout, maps and screens nothing opens.

Four hazards have no property:

* `OTPVC.swift:65`: two empty strings are equal, so Verify goes through when the
  request for the code failed. Nothing in the repository says what Verify needs;
  `Session` lets it through.
* `PaymentVC.swift:77`: the same payment is posted once per page. What the server
  does with repeated transaction numbers is unknown.
* `PaymentVC.swift:174`: a login answer computed before a payment may overwrite
  its mark. `Accounts.Mark` allows it, for it is what the code does.
* `HomeVC.swift:681`: the vehicle table is loaded once, so a deleted vehicle can
  still be chosen. `RequestIsAsChosen` says it is the one that is requested.

## 6. Plan

Done, in this order, the most important behaviour first: `RideBoard` and
`Booking`; its proofs; `OtpEntry` and its proofs; `Session`; its proofs;
`TowRequest`; its proofs; that `Booking` implements `RideBoard`; `Language` and
`Profile`, the composition and its proofs; `Rating` and its proofs; `Accounts`, and
that `Session` implements it.

What could be added:

1. Liveness of `Booking` over a network that loses calls, with returns to the
   foreground under fairness: the polling chains are then restarted by the user.
2. Windows replaced with calls in flight in `TowRequest`.
3. Action properties of `Session`: a window changes only by a launch, a login, a
   logout, a payment or a change of language.
