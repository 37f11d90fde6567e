\* A second job replaces the deploy path of a successful one.
SPECIFICATION Spec
CONSTANTS
    j1 = j1
    j2 = j2
    app = app
    sidecar = sidecar
    data = data
    cache = cache
    Job = {j1, j2}
    Image = {app, sidecar}
    Buildable = {app}
    Host = Host
    Volume = {data, cache}
    Probed <- Probes
    Retention = 1
    RetryEnabled = TRUE
    IgnoreUnfixed = TRUE
SYMMETRY Symmetry
PROPERTIES
    PointerIsNeverLost
