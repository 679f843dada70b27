SPECIFICATION AdSpec
CONSTANTS
    unit1 = unit1
    unit2 = unit2
    campaign = campaign
    EnabledApps <- MCApps
    Units = {unit1, unit2}
    EntityOf <- MCEntityOf
    Derived = TRUE
    Lookback = 2
    RestateDays = 1
    MaxDay = 2
    MaxSpend = 2
INVARIANTS
    LookbackAbsorbs
CHECK_DEADLOCK FALSE
