------------------------------ MODULE OtpEntry ------------------------------
(***************************************************************************)
(* Typing a one-time password: VPMOTPView, a row of text fields that passes*)
(* the keyboard focus along, and OTPVC, the delegate that keeps the code.  *)
(*                                                                         *)
(* Every key is one action: the text field asks its delegate               *)
(* shouldChangeCharactersIn, which edits the fields itself and always      *)
(* answers false.  A key may insert several characters at once (a paste).  *)
(* The input type stays numeric, so no text is rejected for its letters;   *)
(* colours and borders are left out.                                       *)
(***************************************************************************)
EXTENDS Naturals, Sequences, SequencesExt

CONSTANTS
  FieldsCount,   \* otpFieldsCount
  Chars,         \* characters that can be typed
  MaxInsert,     \* bound: characters inserted by one key or paste
  Intermediate   \* shouldAllowIntermediateEditing, FALSE in OTPVC

ASSUME OtpAssumption ==
  /\ FieldsCount \in Nat \ {0}
  /\ MaxInsert \in Nat
  /\ Intermediate \in BOOLEAN

VARIABLES
  text,     \* field -> the text it shows
  secure,   \* field -> its entry of secureEntryData
  focus,    \* the first responder, 0 when there is none
  entered,  \* OTPVC.enteredOtp
  told      \* the delegate calls of the last key, in order

vars == <<text, secure, focus, entered, told>>

Fields == 1 .. FieldsCount
Strings(n) == UNION {[1 .. k -> Chars] : k \in 0 .. n}
Empty(t, f) == t[f] = <<>>
Filled == {f \in Fields : ~Empty(text, f)}

HasEntered(all) == [call |-> "hasEnteredAllOTP", all |-> all, otp |-> <<>>]
Entered(otp) == [call |-> "enteredOTP", all |-> FALSE, otp |-> otp]

(* Faulty: the field after the first empty one is let through.             *)
MayEditAhead(t, f) ==
  \/ Intermediate
  \/ \A g \in Fields : ~Empty(t, g)
  \/ \E g \in {f, f - 1} \cap Fields :
       Empty(t, g) /\ \A e \in 1 .. g - 1 : ~Empty(t, e)

(* isPreviousFieldsEntered, with the texts t: the first empty field and the*)
(* one before it may be edited, every field once none is empty.            *)
MayEdit(t, f) ==
  \/ Intermediate
  \/ \A g \in Fields : ~Empty(t, g)
  \/ \E g \in {f, f + 1} \cap Fields :
       Empty(t, g) /\ \A e \in 1 .. g - 1 : ~Empty(t, e)

(* The focus after becomeFirstResponder of field f, from field g.          *)
FocusOn(t, f, g) == IF f = g \/ MayEdit(t, f) THEN f ELSE g

Init ==
  /\ text = [f \in Fields |-> <<>>]
  /\ secure = [f \in Fields |-> <<>>]
  /\ focus \in {0, 1}  \* OTPVC asks for it before its view is in a window
  /\ entered = <<>>
  /\ told = <<>>
-----------------------------------------------------------------------------
(* Faulty variants: each breaks one property.                              *)

(* The code is told only from the last field.                              *)
CalculateAtEnd(s) ==
  LET otp == FlattenSeq(s)
  IN IF Len(otp) = FieldsCount /\ focus = FieldsCount
       THEN entered' = otp /\ told' = <<Entered(otp), HasEntered(TRUE)>>
       ELSE UNCHANGED entered /\ told' = <<>>

(* The secure entry of a deleted field is kept.                            *)
DeleteTextShown(g) ==
  /\ text' = [text EXCEPT ![g] = <<>>]
  /\ UNCHANGED <<secure, entered>>
  /\ told' = <<HasEntered(FALSE)>>
-----------------------------------------------------------------------------
(* calculateEnteredOTPSTring(isDeleted: false) with the entries s: only a  *)
(* string of FieldsCount characters is told.                               *)
Calculate(s) ==
  LET otp == FlattenSeq(s)
  IN IF Len(otp) = FieldsCount
       THEN entered' = otp /\ told' = <<Entered(otp), HasEntered(TRUE)>>
       ELSE UNCHANGED entered /\ told' = <<>>

(* deleteText: OTPVC keeps its code.                                       *)
DeleteText(g) ==
  /\ text' = [text EXCEPT ![g] = <<>>]
  /\ secure' = [secure EXCEPT ![g] = <<>>]
  /\ UNCHANGED entered
  /\ told' = <<HasEntered(FALSE)>>

Tap(f) ==
  /\ MayEdit(text, f)
  /\ focus' = f
  /\ told' = <<>>
  /\ UNCHANGED <<text, secure, entered>>

(* The key leaves some text in the field: what is inserted replaces it all *)
(* (all of it is lost when one of several characters is erased) and the    *)
(* focus moves on, or away after the last field.                           *)
Change(string) ==
  /\ focus # 0
  /\ string # <<>> \/ Len(text[focus]) > 1
  /\ text' = [text EXCEPT ![focus] = string]
  /\ secure' = [secure EXCEPT ![focus] = string]
  /\ focus' = IF focus = FieldsCount THEN 0 ELSE FocusOn(text', focus + 1, focus)
  /\ Calculate(secure')

(* The key leaves nothing in the field.  In an empty field it deletes the  *)
(* one before.                                                             *)
EraseBefore ==
  /\ focus > 1 /\ Empty(text, focus)
  /\ DeleteText(focus - 1)
  /\ focus' = FocusOn(text', focus - 1, focus)

Erase ==
  /\ focus # 0 /\ (focus = 1 \/ ~Empty(text, focus))
  /\ DeleteText(focus)
  /\ focus' = IF focus > 1 THEN FocusOn(text', focus - 1, focus) ELSE focus

Next == \/ \E f \in Fields : Tap(f)
        \/ \E string \in Strings(MaxInsert) : Change(string)
        \/ EraseBefore
        \/ Erase

Spec == Init /\ [][Next]_vars
-----------------------------------------------------------------------------
(* A field shows its entry of secureEntryData (neither otpFilledEntryDisplay*)
(* nor otpFieldEntrySecureType is set), and focus is a field.              *)
TypeOK ==
  /\ text \in [Fields -> Strings(MaxInsert)]
  /\ secure = text
  /\ focus \in 0 .. FieldsCount
  /\ entered \in {<<>>} \union [Fields -> Chars]

(* Without intermediate editing the user is never in a field with an empty *)
(* one before it, whatever was tapped, pasted and erased in between        *)
(* (isPreviousFieldsEntered).                                              *)
EditsInOrder ==
  Intermediate \/ \A f \in 1 .. focus - 1 : ~Empty(text, f)

(* While every field shows one character, the code that OTPVC compares when*)
(* Verify is pressed is the one on the screen, although deleteText does    *)
(* not clear it.                                                           *)
CompleteCodeIsHeld ==
  (\A f \in Fields : Len(text[f]) = 1) => entered = [f \in Fields |-> text[f][1]]

(* "It'll be called immediately after hasEnteredAllOTP delegate method is  *)
(* called" (VPMOTPView.swift:41).                                          *)
EnteredAfterHasEntered ==
  \A i \in 1 .. Len(told) :
    told[i].call = "enteredOTP" => i > 1 /\ told[i - 1].call = "hasEnteredAllOTP"

(* "hasEntered will be true if all the OTP fields have been filled"        *)
(* (VPMOTPView.swift:48).                                                  *)
HasEnteredWhenFilled ==
  \A i \in 1 .. Len(told) :
    told[i].call = "hasEnteredAllOTP" /\ told[i].all => Filled = Fields

(* "Else editing will take place from last filled text field only"         *)
(* (VPMOTPView.swift:102): no field behind the one in focus is filled.     *)
EditsAtTheEnd ==
  ~Intermediate /\ focus # 0 => \A f \in Filled : f <= focus + 1
=============================================================================
