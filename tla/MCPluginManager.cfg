SPECIFICATION PluginsSpec
CONSTANTS
    Files = {"html", "xdxf", "espeak", "other"}
    TypeOf <- MCTypeOf
    Dir <- MCDir
    Orders <- MCOrders
    Disables = {{}, {"html"}}
INVARIANTS
    PluginsHeld
    PluginsRun
CHECK_DEADLOCK FALSE
