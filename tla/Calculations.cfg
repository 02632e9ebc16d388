SPECIFICATION Calls
CONSTANTS
    Files <- MCFiles
    Overrides <- MCOverrides
    Disks <- MCDisks
    Numbers <- MCNumbers
    Tallies <- MCTallies
    Percents <- MCPercents
    FamilyOrder <- MCFamilyOrder
    ValueOrder <- MCValueOrder
    MetricKeys <- MCMetricKeys
    Windows <- MCWindows
    Quantiles <- MCQuantiles
    Switches <- MCSwitches
INVARIANTS LoadedIsUsable NamesTold QuantileSound WellFormed
