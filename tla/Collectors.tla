----------------------------- MODULE Collectors -----------------------------
(***************************************************************************)
(* Registration of the collectors (src/collector/mod.rs) and the metric    *)
(* families that each of them describes.                                   *)
(***************************************************************************)
EXTENDS Sequences

CpuFamilies ==
    {"hires_cpu_user", "hires_cpu_system", "hires_cpu_iowait",
     "hires_ctxt_switches_per_sec", "hires_interrupts_per_sec"}

DiskFamilies == {"hires_io_queue_depth", "hires_io_util_percent"}

PsiFamilies ==
    {"hires_psi_cpu_some", "hires_psi_cpu_full", "hires_psi_memory_some",
     "hires_psi_memory_full", "hires_psi_io_some", "hires_psi_io_full"}

RunQueueFamilies == {"hires_run_queue_depth", "hires_run_queue_per_cpu"}

SoftnetFamilies ==
    {"hires_softnet_processed_per_sec", "hires_softnet_drops_per_sec",
     "hires_softnet_time_squeezed_per_sec"}

VmstatFamilies == {"hires_pgmajfault_per_sec"}

Families ==
    [cpu |-> CpuFamilies, disk |-> DiskFamilies, psi |-> PsiFamilies,
     run_queue |-> RunQueueFamilies, softnet |-> SoftnetFamilies,
     vmstat |-> VmstatFamilies]

\* The order of build_collectors, which is that of the names.
Registered == <<"cpu", "disk", "psi", "run_queue", "softnet", "vmstat">>

\* build_collectors: what the configuration enables.
BuildCollectors(enabled) == SelectSeq(Registered, LAMBDA name : enabled[name])

\* The descriptors that Sampler::new gathers.
Described(collectors) == UNION {Families[collectors[i]] : i \in DOMAIN collectors}

\* SelfMetrics::new
NewSelfMetrics(collectors) ==
    [name \in {collectors[i] : i \in DOMAIN collectors} |->
        [samplesTotal |-> 0, errorsTotal |-> 0, enabled |-> 1]]
=============================================================================
