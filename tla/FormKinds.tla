------------------------------ MODULE FormKinds ------------------------------
(***************************************************************************)
(* What a form of the front end does with the draft the user types, in the *)
(* terms that its correctness depends on.  FormTable says it of every      *)
(* form; Forms says what happens then.                                     *)
(***************************************************************************)

(***************************************************************************)
(*   of       "row": it is about a row, and opens for another one;         *)
(*            "one": about one thing, or a new one                         *)
(*   seed     what opening does to the draft: "fresh", it is set; "shut",  *)
(*            nothing, but the user's closing empties it; "kept", nothing; *)
(*            "read", the server is asked and whatever answer comes fills  *)
(*            the open form; "reread", and it is asked again later         *)
(*   shut     "held" open while it saves, or "free" to be closed           *)
(*   busy     where the flag lives that disables its button: the "page",   *)
(*            the "row", the "dialog", which dies when it closes; "none"   *)
(*   done     a success "closes" and empties it, "empties" it, "hides" it  *)
(*            with its draft, or leaves it ("stays"); one that "sends"     *)
(*            closes when the request goes out                             *)
(*   refused  a refusal leaves it ("stays"), "empties" it, "closes" and    *)
(*            empties it, or "restores" what was sent                      *)
(*   late     the answer to an earlier opening "acts" on the form as it is *)
(*            now, or is "dropped"                                         *)
(***************************************************************************)
Form(of, seed, shut, busy, done, refused, late) ==
    [of |-> of, seed |-> seed, shut |-> shut, busy |-> busy, done |-> done,
     refused |-> refused, late |-> late]

FormKind ==
    [of : {"row", "one"},
     seed : {"fresh", "shut", "kept", "read", "reread"},
     shut : {"held", "free"},
     busy : {"page", "row", "dialog", "none"},
     done : {"closes", "empties", "hides", "stays", "sends"},
     refused : {"stays", "empties", "closes", "restores"},
     late : {"acts", "dropped"}]

\* The commonest two: a dialog whose draft is set when it opens, whose page
\* holds the flag, and which a success closes.
OfRow(shut) == Form("row", "fresh", shut, "page", "closes", "stays", "acts")
OfOne(shut) == Form("one", "fresh", shut, "page", "closes", "stays", "acts")

\* A dialog that asks for a reason: closing it empties it, and so does the answer,
\* whatever it was (SensitiveActionModal).
AskingReason == Form("row", "shut", "free", "page", "closes", "empties", "acts")

==============================================================================
