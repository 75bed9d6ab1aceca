---------------------------- MODULE MCManagerCli ----------------------------
(* ManagerCli on small instances. *)
EXTENDS ManagerCli

CONSTANTS c1, c2, p1, p2, a1, m1

Cmd(op, c, ty, on, pkgs, name) ==
  [op |-> op, cid |-> c, type |-> ty, on |-> on, pkgs |-> pkgs, name |-> name]

Plain(op, c) == Cmd(op, c, "chroot", FALSE, <<>>, m1)

\* Two containers, a chroot and an lxc one, and every command.
MCCommands ==
  {Cmd("create", c1, "chroot", FALSE, <<>>, m1), Cmd("create", c2, "lxc", FALSE, <<>>, m1)}
  \cup {Plain("destroy", c) : c \in {c1, c2}}
  \cup {Cmd("install", c1, "chroot", deb, <<p1, p2>>, m1) : deb \in BOOLEAN}
  \cup {Cmd("install", c2, "lxc", FALSE, <<p1>>, m1)}
  \cup {Cmd(op, c1, "chroot", FALSE, <<p1>>, m1) : op \in {"remove", "update"}}
  \cup {Cmd(op, None, "chroot", TRUE, <<>>, m1) : op \in {"multiarch", "freeze"}}
  \cup {Cmd("archive", None, "chroot", add, <<>>, a1) : add \in BOOLEAN}
  \cup {Cmd("bind", c1, "chroot", add, <<>>, m1) : add \in BOOLEAN}
  \cup {Plain("set-default", c2)} \cup {Plain(op, None) : op \in {"clear-default", "merge", "fix-integrity"}}

Source(c) ==
  [keys |-> "full", default |-> c,
   list |-> << [id |-> c, type |-> "chroot", status |-> "ready", multiarch |-> FALSE, freeze |-> FALSE,
                apps |-> << >>, archives |-> <<>>, mounts |-> <<>>] >>]
MCSources == {Source(c1)}
=============================================================================
