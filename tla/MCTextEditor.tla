---------------------------- MODULE MCTextEditor ----------------------------
(* Small instances of TextEditor for TLC.                                  *)
EXTENDS TextEditor

Glyphs == {"a", "x", "y", "tab", "space", "lead", "next", "-"}

TabText == {<<<<"x">>, <<"tab">>>>}
TwinLines == {<<<<"x">>, <<"x">>>>}
Words == {<<<<"a", "space">>, <<>>>>}

LineOfText == {<<"y", "newline">>}
NoText == {<<>>}
=============================================================================
