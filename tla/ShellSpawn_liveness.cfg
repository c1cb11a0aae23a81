CONSTANTS
    Slots = {wa, h1, h2, h3, h4}
    StaticWA = wa
    NULL = NULL
SPECIFICATION FairSpec
PROPERTIES
    ShellRespawned
