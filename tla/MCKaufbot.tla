------------------------------ MODULE MCKaufbot ------------------------------
(* Values for model checking the whole bot on a small instance.            *)
EXTENDS Kaufbot

CONSTANTS c1, c2, jpg

OneContent  == {c1}
TwoContents == {c1, c2}
OneExt      == {jpg}

\* The call whose failure the user is told of, before there is a row, and the
\* one whose failure leaves a row without its text and is not told.
InsertOnly == {"insert"}
MarkOnly   == {"mark_ocr"}

Ask(by, what, on) == [by |-> by, what |-> what, on |-> on]

\* A file is uploaded, something is done about it, and it is sent again.
ThreeUpdates ==
  <<{Ask("user", "upload", c1)},
    {Ask("user", "retry", 1), Ask("user", "retry_with_model", 1), Ask("user", "delete", 1),
     Ask("stranger", "delete", 1)},
    {Ask("user", "upload", c1)}>>

\* Two files are uploaded, or one that is sent again, read again or left alone.
TwoFiles ==
  <<{Ask("user", "upload", c1)},
    {Ask("user", "upload", c1), Ask("user", "upload", c2), Ask("user", "retry_with_model", 1),
     Ask("user", "other", None)}>>
=============================================================================
