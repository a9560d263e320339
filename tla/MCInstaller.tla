---------------------------- MODULE MCInstaller ----------------------------
(* Instances of Installer: the configurations create-usb derives (and the    *)
(* connected ones), and media with every defect the prepare phase looks for. *)
EXTENDS Installer, TLC

Cfg(profile) ==
    [profile |-> profile, shutdown |-> profile # SelfContained,
     precacheDisabled |-> FALSE, bestEffort |-> FALSE,
     skipCleanup |-> FALSE, operatorAuth |-> profile = Connected]

Usb == {Cfg(InstallOnly), Cfg(SelfContained),
        [Cfg(InstallOnly) EXCEPT !.operatorAuth = TRUE]}
All == Usb \cup {Cfg(Connected),
                 [Cfg(Connected) EXCEPT !.shutdown = FALSE, !.bestEffort = TRUE],
                 [Cfg(Connected) EXCEPT !.precacheDisabled = TRUE,
                                        !.skipCleanup = TRUE]}

Tag(r, t) == [repo |-> r, by |-> "tag", val |-> t]
Pin(r, d) == [repo |-> r, by |-> "digest", val |-> d]
Entry(n, d, s) == [name |-> n, digest |-> d, tag |-> n, sources |-> s]
Desc(d, t) == [digest |-> d, tag |-> t]

SeedEntry == Entry("seed", "d0", {})
AppEntry == Entry("app", "d1", {Tag("app", "v1"), Pin("app", "d1")})
Good ==
    [p4 |-> "one", p2 |-> "one", version |-> 2,
     images |-> <<SeedEntry, AppEntry>>, seed |-> Pin("seed", "d0"),
     layout |-> <<Desc("d0", "seed"), Desc("d1", "app")>>,
     required |-> {Tag("app", "v1")}, seedCorrupt |-> FALSE,
     roStore |-> "good"]

(* One medium, and one per defect. *)
GoodMedia == {Good}
EveryMedium ==
    {Good,
     [Good EXCEPT !.p4 = "none"], [Good EXCEPT !.p4 = "many"],
     [Good EXCEPT !.p4 = "vfat"], [Good EXCEPT !.p2 = "none"],
     [Good EXCEPT !.version = 1],
     [Good EXCEPT !.seed = Pin("seed", "d9")],
     [Good EXCEPT !.seedCorrupt = TRUE],
     [Good EXCEPT !.roStore = "incomplete"],
     \* a descriptor missing, duplicated, or under another tag
     [Good EXCEPT !.layout = <<Desc("d0", "seed")>>],
     [Good EXCEPT !.layout = @ \o <<Desc("d1", "app")>>],
     [Good EXCEPT !.layout = <<Desc("d0", "seed"), Desc("d1", "web")>>],
     \* a reference of the seed that no entry lists
     [Good EXCEPT !.required = @ \cup {Tag("web", "v1")}],
     \* one that two entries list
     [Good EXCEPT !.images = @ \o <<Entry("web", "d2", {Tag("app", "v1")})>>,
                  !.layout = @ \o <<Desc("d2", "web")>>],
     \* a source that is pinned in another repository, which gets no alias
     [Good EXCEPT !.images =
         <<SeedEntry, Entry("app", "d1", {Pin("mirror", "d1")})>>,
                  !.required = {Pin("mirror", "d1")}],
     \* an entry that is listed under its pinned name only
     [Good EXCEPT !.images = <<SeedEntry, Entry("app", "d1", {Pin("app", "d1")})>>,
                  !.required = {Pin("app", "d1")}]}
=============================================================================
