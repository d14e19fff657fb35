---------------------------- MODULE MCSpaceMeta ----------------------------
(* SpaceMeta for TLC: what the requests are, how many, and what may fail.  *)
EXTENDS SpaceMeta, TLC

Base == [kinds |-> {"create"}, requests |-> 2, names |-> {"a"}, first |-> "none",
         partitions |-> 1, pids |-> 3, cleaning |-> FALSE, faults |-> {}]

Creations == [Base EXCEPT !.names = {"a", "b"}, !.partitions = 2, !.pids = 4,
                          !.faults = {"create"}]

Updates3 == [Base EXCEPT !.kinds = {"expand", "config", "delete"}, !.requests = 3,
                         !.first = "a"]

Members3 == [Base EXCEPT !.kinds = {"add", "config", "expand"}, !.requests = 3,
                         !.first = "a", !.pids = 2]

Cleaned == [Base EXCEPT !.names = {"a", "b"}, !.first = "b", !.cleaning = TRUE,
                        !.faults = {"create"}]

Recreated == [Base EXCEPT !.kinds = {"create", "delete"}, !.requests = 3,
                          !.faults = {"create", "rpc", "etcd"}]

Everything == [Base EXCEPT !.kinds = RequestKinds \ {"rename"}, !.first = "a",
                           !.pids = 2, !.cleaning = TRUE,
                           !.faults = {"create", "rpc", "etcd"}]

Renamed == [Base EXCEPT !.kinds = {"create", "rename"}, !.names = {"a", "b"},
                        !.first = "a", !.pids = 2]

AllSettings == {Creations, Updates3, Members3, Cleaned, Recreated, Everything, Renamed}

ClientSymmetry == Permutations(Clients) \cup Permutations(Servers)
=============================================================================
