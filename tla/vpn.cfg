SPECIFICATION FairSpec
CONSTANTS
    Tasks = {t1, t2}
    Groups = {g1, g2, g3}
    Deployments <- MCDeployments
    MaxKills = 1
    NoTask = NoTask
INVARIANT OwnTunnelOnly
PROPERTY LockComesFree
