--------------------------- MODULE MCTaskService ---------------------------
(* TaskService on small instances. *)
EXTENDS TaskService

CONSTANTS c1, p1

Request(k, p, ty) == [kind |-> k, cid |-> c1, pkg |-> p, type |-> ty]

\* Requests that leave the container in place.
PackageRequests ==
  {Request(k, p1, "chroot") : k \in {"install", "remove", "app_info", "container_info"}}

\* Requests that make and unmake a container, and some that meet them.
ContainerRequests ==
  {Request("create", p1, "chroot"), Request("create", p1, "lxc"),
   Request("destroy", p1, "chroot"), Request("install", p1, "chroot"),
   Request("list_app_ids", p1, "chroot")}

\* Requests some of which die, raise, or find the lock taken.
SwitchRequests ==
  {Request("update", p1, "chroot"), Request("search", p1, "chroot"), Request("create", p1, "unsupported")}
TwinRequests == {Request("install", p1, "chroot")}
=============================================================================
