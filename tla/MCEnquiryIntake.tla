---------------------------- MODULE MCEnquiryIntake ----------------------------
(***************************************************************************)
(* Small instances of EnquiryIntake for TLC.                               *)
(***************************************************************************)
EXTENDS EnquiryIntakeProperties, TLC

\* One enquiry, typed in two ways by somebody who also changed the name ...
Ada == [wellFormed |-> TRUE, fullName |-> "Ada L", propertyId |-> 1,
        email |-> [text |-> "ada@example.com", style |-> "lower"],
        phone |-> [text |-> "", style |-> "plain"],
        message |-> [text |-> "visit on friday", style |-> "plain"]]

AdaAgain == [Ada EXCEPT !.fullName = "Ada Lovelace", !.email.style = "capitals",
                        !.message.style = "double spaced"]

\* ... another one ...
Bob == [Ada EXCEPT !.fullName = "Bob", !.email.text = "bob@example.com"]

\* ... and a body the schema refuses.
Broken == [Ada EXCEPT !.wellFormed = FALSE, !.message.text = ""]

OneEnquiry == {Ada}
TwoEnquiries == {Ada, Bob}
AllKinds == {Ada, AdaAgain, Bob, Broken}

RequestSymmetry == Permutations(Requests)
=============================================================================
