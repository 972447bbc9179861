--------------------------- MODULE MCEditorWindow ---------------------------
(* A small instance of EditorWindow for TLC: pages of two rows.            *)
EXTENDS EditorWindow
=============================================================================
