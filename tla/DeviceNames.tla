---------------------------- MODULE DeviceNames ----------------------------
(***************************************************************************)
(* What src/collector/disk.rs makes of the names in /proc/diskstats.  A    *)
(* name is a sequence of symbols, the driver's prefix being one of them:   *)
(* sda is <<"sd", "a">> and dm-10 is <<"dm-", "1", "0">>.  No prefix used  *)
(* here begins with another.                                               *)
(***************************************************************************)
EXTENDS Integers, Sequences, SequencesExt

Digits == {"0", "1", "2"}

AllDigits(symbols) == \A i \in DOMAIN symbols : symbols[i] \in Digits

\* str::strip_prefix('p'), or the string itself.
WithoutP(symbols) ==
    IF symbols # <<>> /\ Head(symbols) = "p" THEN Tail(symbols) ELSE symbols

\* Seeded fault: the p between a disk that ends in a digit and its partition
\* is not looked for.
LooksLikePartitionPlain(name, base) ==
    /\ IsStrictPrefix(base, name)
    /\ AllDigits(SubSeq(name, Len(base) + 1, Len(name)))

\* Seeded fault: nothing need come after the p.
LooksLikePartitionEmpty(name, base) ==
    /\ IsStrictPrefix(base, name)
    /\ AllDigits(WithoutP(SubSeq(name, Len(base) + 1, Len(name))))

\* The test of is_partition_of_listed for one base.
LooksLikePartition(name, base) ==
    /\ IsStrictPrefix(base, name)
    /\ LET suffix == WithoutP(SubSeq(name, Len(base) + 1, Len(name)))
       IN  suffix # <<>> /\ AllDigits(suffix)

IsPartitionOfListed(name, names) == \E base \in names : LooksLikePartition(name, base)

PseudoDrivers == {"loop", "ram", "zram", "fd", "sr"}

IsPseudoDevice(name) == Head(name) \in PseudoDrivers /\ AllDigits(Tail(name))

\* device_selected with neither an include nor an exclude list.
SelectedByName(name, names) == ~ IsPseudoDevice(name) /\ ~ IsPartitionOfListed(name, names)

\* The kernel's names for partitions: a p goes before the number if the name
\* of the disk ends in a digit.
PartitionName(disk, number) ==
    (IF Last(disk) \in Digits THEN Append(disk, "p") ELSE disk) \o number
=============================================================================
