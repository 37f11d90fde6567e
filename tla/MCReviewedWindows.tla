------------------------- MODULE MCReviewedWindows -------------------------
(* Instances of ReviewedWindows for TLC.                                   *)
EXTENDS ReviewedWindows, TLC

CONSTANTS p1, imgA, imgB, base

Windows == [HIGH |-> 2, CRITICAL |-> 1]

Vulnerability(id, severity, fixed) ==
    [kind |-> "vulnerability", id |-> id, purl |-> "pkg", path |-> "lib",
     severity |-> severity, fixed |-> fixed]

High == Vulnerability("cve1", "HIGH", TRUE)
Critical == Vulnerability("cve2", "CRITICAL", TRUE)
Unfixed == Vulnerability("cve3", "HIGH", FALSE)
Medium == Vulnerability("cve4", "MEDIUM", TRUE)
Secret == [High EXCEPT !.kind = "secret", !.id = "rule1", !.path = "etc", !.purl = ""]
Misconfig == [Secret EXCEPT !.kind = "misconfiguration", !.id = "rule2"]

Tracked(id) == [service |-> "api", advisory |-> id, purl |-> "pkg", lineage |-> {base}]

Docker == [inspect |-> "ok", sudoInspect |-> "ok", save |-> TRUE, chown |-> TRUE,
           lineage |-> {base}]

Exception(id, expires) ==
    [id |-> id, expires |-> expires, scanTypes |-> {"image"}, targets |-> {imgA},
     lineage |-> {}, paths |-> {}, purls |-> {"pkg"}]

Base ==
    [scanType |-> "image", targets |-> {imgA}, mode |-> "direct",
     docker |-> [t \in {imgA, imgB} |-> Docker],
     report |-> [t \in {imgA, imgB} |-> {High}],
     exceptions |-> {}, baseline |-> NoBaseline, enabled |-> TRUE,
     service |-> "api", exposure |-> "internal"]

Reporting(found) == [Base EXCEPT !.report[imgA] = found]

Baseline(scope, expires) ==
    [reviewedAt |-> 0, expires |-> expires,
     findings |-> {[scope |-> scope, fingerprint |-> Fingerprint5(High)]}]

\* The findings alone, then each reviewed file and each failing tool.
Inputs ==
    {Reporting(found) : found \in
        {{}, {Unfixed}, {High}, {Critical}, {High, Critical}, {High, Secret},
         {Secret}, {Misconfig, Unfixed}, {Medium}}}
    \cup {[Reporting({High}) EXCEPT !.exceptions = {x}, !.enabled = FALSE] : x \in
        {Exception("cve1", 1), Exception("cve1", 4),
         [Exception("cve1", 4) EXCEPT !.purls = {"other"}],
         [Exception("cve1", 4) EXCEPT !.targets = {imgB}],
         [Exception("cve1", 4) EXCEPT !.targets = {}, !.lineage = {base}],
         [Exception("cve1", 4) EXCEPT !.targets = {}, !.lineage = {base}, !.purls = {}],
         [Exception("cve1", 4) EXCEPT !.targets = {AnyTarget}, !.paths = {"opt"}]}}
    \cup {[Reporting({Secret}) EXCEPT !.scanType = "fs", !.enabled = FALSE,
                                      !.exceptions = {x}] : x \in
        {[Exception("rule1", 2) EXCEPT !.scanTypes = {"fs"}, !.targets = {}, !.purls = {},
                                       !.paths = {"etc"}],
         [Exception("rule1", 2) EXCEPT !.scanTypes = {"fs"}]}}
    \cup {[Base EXCEPT !.targets = {imgA, imgB}, !.enabled = FALSE, !.baseline = b] : b \in
        {Baseline(imgA, 4), Baseline(imgB, 4)}}
    \cup {[Reporting({High}) EXCEPT !.enabled = FALSE, !.baseline = b] : b \in
        {Baseline(imgA, 1), Baseline(imgA, 4), [Baseline(imgA, 4) EXCEPT !.reviewedAt = 2]}}
    \cup {[Reporting({}) EXCEPT !.baseline = Baseline(imgA, 4)]}
    \cup {[Reporting({High}) EXCEPT !.mode = m, !.enabled = FALSE, !.docker[imgA] = d] :
            m \in {"auto", "direct", "sudo"},
            d \in {[Docker EXCEPT !.inspect = "failed"],
                   [Docker EXCEPT !.inspect = "invalid", !.sudoInspect = "invalid"],
                   [Docker EXCEPT !.inspect = "failed", !.save = FALSE]}}
    \cup {[Base EXCEPT !.docker[imgA].lineage = {}], [Base EXCEPT !.exposure = ""],
          [Reporting({Critical}) EXCEPT !.exposure = "internet-facing"],
          [Base EXCEPT !.service = "other"], [Base EXCEPT !.targets = {imgA, imgB}]}

\* No policy yet, or one that tracks the critical finding from the start.
Policies ==
    {<< >>,
     << [id |-> 0, fingerprint |-> Tracked("cve2"), firstSeen |-> 0, deadline |-> 1,
         reviewedAt |-> 0, status |-> "active", history |-> << >>] >>}

Tracks == {Tracked("cve1")}
=============================================================================
