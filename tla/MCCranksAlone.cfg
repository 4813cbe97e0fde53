CONSTANTS
    Stakes = {s1, s2}
    Deactivators = {d}
    Reclaimers = {r}
    DeactivateBatchSize = 1
    ReclaimBatchSize = 2
    Strays = {}
SPECIFICATION FairCranksSpec
INVARIANTS CranksTypeOK
PROPERTIES DrainsWhenSalesStop
