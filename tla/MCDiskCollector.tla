-------------------------- MODULE MCDiskCollector --------------------------
(***************************************************************************)
(* Instances of DiskCollector for TLC, with the names of DeviceNames.      *)
(***************************************************************************)
EXTENDS DiskCollector, DeviceNames

\* Two device-mapper disks: dm-10 is dm-1 with a digit after it.
MapperDevices == {<<"dm-", "1">>, <<"dm-", "1", "0">>}

\* What the parameters of DiskCollector are of these names.
PseudoDevices == {d \in Devices : IsPseudoDevice(d)}
NamesThatExtend == {p \in Devices \X Devices : LooksLikePartition(p[1], p[2])}
=============================================================================
