---------------------------- MODULE MCBindMounts ----------------------------
(* BindMounts with three xdg directories, two of which are the same. *)
EXTENDS BindMounts

CONSTANTS doc, music,   \* xdg directories
          sub,          \* lies in doc
          mine, alike   \* a directory of the user, and one whose name begins with its name

MCPaths == {doc, music, sub, mine, alike}
MCUnder == {<<p, p>> : p \in MCPaths} \cup {<<sub, doc>>}
MCPrefix == MCUnder \cup {<<alike, mine>>}
MCXdg == <<doc, music, music>>
=============================================================================
