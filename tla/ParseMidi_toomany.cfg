SPECIFICATION Spec
CONSTANTS
    MAX_N = 2
    NoMessage = NoMessage
    Pods <- MCPods
INVARIANT TooManyMeansTooMany
