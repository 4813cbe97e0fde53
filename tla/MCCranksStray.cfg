CONSTANTS
    Stakes = {s1, s2}
    Deactivators = {d}
    Reclaimers = {r}
    DeactivateBatchSize = 1
    ReclaimBatchSize = 2
    Strays = {s2}
SPECIFICATION FairCranksSpec
PROPERTIES DrainsWhenSalesStop
