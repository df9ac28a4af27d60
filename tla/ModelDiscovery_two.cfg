SPECIFICATION FairSpec
CONSTANTS
    Threads = {t1, t2}
    Apps = {claude, codex}
    Gateways = {g1, g2}
    Incomplete = Incomplete
    MaxModels = 2
INVARIANTS TypeOK AnswerForForm
PROPERTIES NoProbeAfterClose OffersWhole ButtonComesBack
