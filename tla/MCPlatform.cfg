SPECIFICATION FairSpec
CONSTANT DeviceSources = {8, 33}
CONSTANT BareSources = {0}
CONSTANT TimerSource = 8
CONSTANT PcdTimerPeriod = 10000
CONSTANT DgtTicksPerMs = 4800
CONSTANT MaxFrames = 2
CONSTANT PinUsers <- MCPinUsers
CONSTANT CounterRange = 16
CONSTANT Delays = {1, 31, 100, 200}
CONSTANT NanoDelays = {1, 61000}
CONSTANT MaxGap = 3
CONSTANT PcomLevels = {0, 2}
CONSTANT MaxFails = 1
CONSTANT UsedClocks <- MCUsedClocks
CONSTANT Instances = {2}
CONSTANT Rates = {400}
CONSTANT MaxPcomCalls = 2
CONSTANT FirstSpeed = 17
CONSTANT AskedKhz = {0, 245000, 384000, 998400, 5}
CONSTANT MaxSetRates = 3
CONSTANT RawVoltages = {1600, 1680, 1681}
CONSTANT JunkBytes = {0, 105, 255}
CONSTANT MaxSupplyChanges = 2
CONSTANT MaxBusFaults = 2
INVARIANTS TicksRight PinsKept DelaysRight CallsUndisturbed SpeedSwitchedSafely ChargerRight
PROPERTIES InterruptsServed RequestsHappen ChargerSettles
CHECK_DEADLOCK FALSE
