CONSTANT N = 4
SPECIFICATION Spec
INVARIANT ExportedFileComplete
\* One call of ExportChain: it returns and its deferred closes run, after
\* which the goroutine serving the RPC moves on.
CHECK_DEADLOCK FALSE
