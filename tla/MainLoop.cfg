\* Every pattern, on a clock that wraps around in each of them; a button that bounces
\* for two turns.
CONSTANTS
    Variants <- ShownVariants
    ClockMod = 5
    DebounceTurns = 5
    BounceTurns = 2
SPECIFICATION Spec
INVARIANTS OncePerPress PressTaken
PROPERTIES TimesKept PatternEnds
