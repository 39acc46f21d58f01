------------------------------- MODULE Rating -------------------------------
(***************************************************************************)
(* The rating form: FeedbackVC and its FloatRatingView.  A touch is turned *)
(* into a rating, the stars are lit for it, the form is told, and Submit   *)
(* sends what the form was told last.  When the form comes up, and the     *)
(* window that replaces it, are in Booking; the description's text is left *)
(* out.                                                                    *)
(*                                                                         *)
(* Ratings are counted in halves.  Positions are counted in units of which *)
(* a quarter of a star has Quarter.                                        *)
(***************************************************************************)
EXTENDS Integers

CONSTANTS
  Stars,    \* FloatRatingView.maxRating
  Least,    \* FloatRatingView.minRating
  Quarter,  \* a quarter of a star's width
  Gap,      \* layoutSubviews: imageXOffset
  Slots     \* bound: calls in flight together

(* FeedbackVC.Rating and the storyboard's "rating": 2.5.                   *)
First == 5

ASSUME RatingAssumption ==
  /\ Stars \in Nat /\ Least \in 1 .. Stars /\ First \in 2 * Least .. 2 * Stars
  /\ Quarter \in Nat \ {0} /\ Gap \in Nat

VARIABLES
  view,      \* FloatRatingView.rating
  frame,     \* the width of its images, 0 before layoutSubviews
  fill,      \* star -> how much of its full image is seen
  told,      \* FeedbackVC.Rating
  confirm,   \* btnConfirm.isSelected
  held,      \* a finger that began on the stars is down
  cover,     \* the loader covers the form
  net,       \* slot -> the call it holds
  recorded,  \* server: ratings recorded, at most 2 are told apart
  touch,     \* history: the last position of a finger on the stars
  doubt      \* history: the loader was taken away by another screen's call, or
             \* an answer to a recorded rating was lost

stars == <<view, frame, fill, touch>>
vars == <<stars, told, confirm, held, cover, net, recorded, doubt>>
-----------------------------------------------------------------------------
Star == 0 .. Stars - 1
Width == 4 * Quarter
Pitch == Width + Gap
Origin(i) == i * Pitch

Ratings == 2 * Least .. 2 * Stars

(* Bound: further out a finger rates as at these ends.                     *)
Reach == -1 .. Stars * Pitch + 1
NoTouch == [x |-> 0, level |-> FALSE, down |-> FALSE]
At(x, level) == [x |-> x, level |-> level, down |-> TRUE]

Idle == [ans |-> "idle", val |-> First]

(* refresh: a star is whole, cut off by a mask, or hidden.                 *)
Part(r, i, width) ==
  IF r >= 2 * i + 2 THEN Width ELSE IF r > 2 * i THEN width \div 2 ELSE 0
Filled(r, width) == [i \in Star |-> Part(r, i, width)]

(* updateLocation's loop ends at the rightmost star that begins before x.  *)
Under(x, i) == x > Origin(i) /\ \A j \in Star : j > i => x <= Origin(j)

(* Faulty variants, of Halves and of AtLeast below.                        *)

(* Only what a touch on a star's image gives is compared with minRating.   *)
AtLeastOne(r) == IF r = 0 THEN 2 * Least ELSE r

(* Halves are rounded up.                                                  *)
HalvesUp(d) == IF d > 2 * Quarter THEN 2 ELSE IF d > 0 THEN 1 ELSE 0

(* The rating of a touch that ends at star i: in halves on its image, else *)
(* the whole star.                                                         *)
Halves(d) == IF d > 3 * Quarter THEN 2 ELSE IF d > Quarter THEN 1 ELSE 0
Rated(x, level, i) ==
  IF level /\ x < Origin(i) + Width THEN 2 * i + Halves(x - Origin(i)) ELSE 2 * i + 2

AtLeast(r) == IF r < 2 * Least THEN 2 * Least ELSE r

Init ==
  /\ view = First /\ told = First
  /\ frame = 0 /\ fill = Filled(First, 0)
  /\ confirm = TRUE /\ held = FALSE /\ cover = FALSE
  /\ net = [s \in Slots |-> Idle]
  /\ recorded = 0
  /\ touch = NoTouch /\ doubt = FALSE
-----------------------------------------------------------------------------
(* Faulty variants, of Layout and of Submit below: each breaks one property*)
(* as those above do.                                                      *)

(* The images get their frames, but their masks are not made anew.         *)
LayoutOnly ==
  /\ frame' = Width
  /\ UNCHANGED <<view, fill, touch, told, confirm, held, cover, net, recorded, doubt>>

(* The loader is started by the answer's closure.                          *)
SubmitUncovered ==
  /\ frame # 0 /\ ~cover /\ confirm
  /\ \E s \in Slots : /\ net[s].ans = "idle"
                      /\ net' = [net EXCEPT ![s] = [ans |-> "none", val |-> told]]
  /\ UNCHANGED <<stars, told, confirm, held, cover, recorded, doubt>>
-----------------------------------------------------------------------------
(* FloatRatingView.                                                        *)

(* layoutSubviews, the first time before anything is seen.                 *)
Layout ==
  /\ frame' = Width
  /\ fill' = Filled(view, frame')
  /\ UNCHANGED <<view, touch, told, confirm, held, cover, net, recorded, doubt>>

(* rating is set, its didSet refreshes what changed, and FeedbackVC is told*)
(* (isUpdating).                                                           *)
Rate(r) ==
  /\ view' = AtLeast(r)
  /\ fill' = IF view' # view THEN Filled(view', frame) ELSE fill
  /\ told' = view'

(* touchesBegan and touchesMoved: a finger that began on the stars moves   *)
(* anywhere, under the loader too.                                         *)
Touch(x, level) ==
  /\ frame # 0 /\ (held \/ ~cover)
  /\ held' = TRUE
  /\ touch' = At(x, level)
  /\ \/ x <= Origin(0) /\ Rate(0)
     \/ \E i \in Star : Under(x, i) /\ Rate(Rated(x, level, i))
  /\ UNCHANGED <<frame, confirm, cover, net, recorded, doubt>>

(* touchesEnded, touchesCancelled: didUpdate writes nothing.               *)
Release ==
  /\ held
  /\ held' = FALSE
  /\ UNCHANGED <<stars, told, confirm, cover, net, recorded, doubt>>
-----------------------------------------------------------------------------
(* FeedbackVC.                                                             *)

Confirm ==
  /\ frame # 0 /\ ~cover
  /\ confirm' = ~confirm
  /\ UNCHANGED <<stars, told, held, cover, net, recorded, doubt>>

Submit ==
  /\ frame # 0 /\ ~cover /\ confirm
  /\ \E s \in Slots : /\ net[s].ans = "idle"
                      /\ net' = [net EXCEPT ![s] = [ans |-> "none", val |-> told]]
  /\ cover' = TRUE
  /\ UNCHANGED <<stars, told, confirm, held, recorded, doubt>>

(* "Failure" and errorBlock: the form stays.  After "Success" it is gone.  *)
Failed(s) ==
  /\ net[s].ans = "failed"
  /\ net' = [net EXCEPT ![s] = Idle] /\ cover' = FALSE
  /\ UNCHANGED <<stars, told, confirm, held, recorded, doubt>>

(* HomeVC and DirectionVC below still check: their loader takes this one's *)
(* place, their answers take it away.                                      *)
OtherStops ==
  /\ cover
  /\ cover' = FALSE /\ doubt' = TRUE
  /\ UNCHANGED <<stars, told, confirm, held, net, recorded>>
-----------------------------------------------------------------------------
(* The server and the network (external).                                  *)

Record(s) ==
  /\ net[s].ans = "none"
  /\ net' = [net EXCEPT ![s].ans = "ok"]
  /\ recorded' = IF recorded = 2 THEN 2 ELSE recorded + 1
  /\ UNCHANGED <<stars, told, confirm, held, cover, doubt>>

Lose(s) ==
  /\ net[s].ans \in {"none", "ok"}
  /\ net' = [net EXCEPT ![s].ans = "failed"]
  /\ doubt' = (doubt \/ net[s].ans = "ok")
  /\ UNCHANGED <<stars, told, confirm, held, cover, recorded>>

Next == \/ Layout \/ Release \/ Confirm \/ Submit \/ OtherStops
        \/ \E x \in Reach, level \in BOOLEAN : Touch(x, level)
        \/ \E s \in Slots : Failed(s) \/ Record(s) \/ Lose(s)

Spec == Init /\ [][Next]_vars
-----------------------------------------------------------------------------
(* The types of the variables: ratings of half stars between the least and *)
(* all of them, on screen and under way.                                   *)
TypeOK ==
  /\ view \in Ratings /\ told \in Ratings
  /\ frame \in {0, Width} /\ fill \in [Star -> {0, 2 * Quarter, Width}]
  /\ confirm \in BOOLEAN /\ held \in BOOLEAN /\ cover \in BOOLEAN
  /\ net \in [Slots -> [ans : {"idle", "none", "ok", "failed"}, val : Ratings]]
  /\ recorded \in 0 .. 2 /\ doubt \in BOOLEAN
  /\ touch \in [x : Int, level : BOOLEAN, down : BOOLEAN]

(* The stars show the rating r.                                            *)
Lit(r) == \A i \in Star : fill[i] = Part(r, i, Width)

(* What is sent is what the stars show when Submit is pressed, although the*)
(* view and the form keep the rating each for itself, starting from a value*)
(* written down in two files (FeedbackVC 25 and the storyboard).           *)
SentIsLit == [][\A s \in Slots : Submit /\ net'[s].ans = "none" /\ net[s].ans = "idle"
                                   => Lit(net'[s].val)]_vars

(* The light ends within a quarter of a star of the finger: a star is whole*)
(* when the finger is past its third quarter, half when past its first, and*)
(* dark before; above or below the stars it is whole from its left edge on.*)
(* The least rating is lit anyway.                                         *)
LitUnderFinger ==
  touch.down => \A i \in Star :
    LET d == touch.x - Origin(i) IN
    fill[i] = IF \/ i < Least \/ d > 3 * Quarter
                 \/ ~touch.level /\ d > 0
                THEN Width
                ELSE IF d > Quarter THEN 2 * Quarter ELSE 0

(* A ride is rated at most once, unless another screen's call took the     *)
(* loader away or the answer to a recorded rating was lost.                *)
RatedOnce == doubt \/ recorded <= 1

(* The inductive invariant behind them: both ratings are the same, the     *)
(* stars show them once they have their frames, and without doubt there is *)
(* one call at most, under the loader, and no rating recorded before it.   *)
Alone == \A s, t \in Slots : net[s].ans # "idle" /\ net[t].ans # "idle" => s = t
Answering == \E s \in Slots : net[s].ans # "idle"
Once ==
  doubt \/ /\ Alone /\ (Answering => cover)
           /\ \A s \in Slots : net[s].ans \in {"none", "failed"} => recorded = 0
           /\ recorded <= 1
           /\ recorded = 1 => \E s \in Slots : net[s].ans = "ok"

IInv ==
  /\ TypeOK
  /\ told = view
  /\ frame # 0 => Lit(view)
  /\ touch.down => frame # 0
  /\ LitUnderFinger
  /\ Once
=============================================================================
