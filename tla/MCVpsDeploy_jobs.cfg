\* Two jobs, rebuilds and the ignore_unfixed policy enabled, one manifest kept.
SPECIFICATION Spec
CONSTANTS
    j1 = j1
    j2 = j2
    app = app
    sidecar = sidecar
    data = data
    cache = cache
    Job = {j1, j2}
    Image = {app, sidecar}
    Buildable = {app}
    Host = Host
    Volume = {data, cache}
    Probed <- Probes
    Retention = 1
    RetryEnabled = TRUE
    IgnoreUnfixed = TRUE
SYMMETRY Symmetry
INVARIANTS
    
    
    
    VolumesAreNotSubstituted
