--------------------------- MODULE MCEditorMarks ---------------------------
(* The instance of the clipboard, and the two scans of EditorMarks over    *)
(* every small text: TLC evaluates the two constants once.                 *)
EXTENDS MCTextEditor, EditorMarks

BracketTexts == BoundedSeq({"(", ")", "[", "]"}, 6)
CommentGlyphs == {"/", "*", "-", Quote, NewLine, Backslash}
CommentTexts ==
    {text \in BoundedSeq(CommentGlyphs, 6) \cup BoundedSeq(CommentGlyphs \cup {LeadByte, NextByte}, 5) :
        Whole(text)}

\* No glyph, or every glyph, was part of comments of both kinds before.
FlagsBefore(text) == {[multiLine |-> set, singleLine |-> set] : set \in {{}, DOMAIN text}}

EveryTextPaired == \A text \in BracketTexts : BracketsPaired(text)
EveryCommentFound ==
    \A text \in CommentTexts :
        PlainStrings(text) => \A flags \in FlagsBefore(text) : CommentsFound(text, flags)

(* Whenever the editor looks for a bracket's match, in whichever text, it  *)
(* finds the one a stack would pair the bracket with.                      *)
BracketsMatched == Running => EveryTextPaired

(* Whenever the editor scans its text, whichever it is and whichever       *)
(* comments it held at the scan before, it flags the glyphs of the comments*)
(* and, outside strings, no others.                                        *)
CommentsMarked == Running => EveryCommentFound
=============================================================================
