SPECIFICATION Spec
CONSTANTS
    i1 = i1
    i2 = i2
    i3 = i3
    i4 = i4
    cm = cm
    sec = sec
    acc = acc
    Objects = {cm, sec, acc}
    Accounts = {acc}
    Keys = {"conf", "token"}
    TokenKey = "token"
    Volumes <- AllVolumes
    Source <- AllSource
    Settings <- AllSettings
    MaxUpdates = 3
INVARIANTS TypeOK MountsComplete ConfigMapExact MountsOnlyOwn
