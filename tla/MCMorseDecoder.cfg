CONSTANTS
    Sendings <- MCSendings
    Rates = {240000, 2400000}
SPECIFICATION MorseSpec
INVARIANTS RunsMatchSignal ReadRight WholeRead ClockIsAir
PROPERTIES FreshStart
CHECK_DEADLOCK FALSE
