SPECIFICATION Spec
CONSTANTS
    Topics = {a}
    Tickers = {daemon, route}
    Every = 2
    None = None
    MaxEvents = 4
    MaxTicks = 3
    MaxHours = 1
PROPERTY
    FadesSlowly
CHECK_DEADLOCK FALSE
