\* Three devices for three ports, of which configuration or another program
\* may withhold some.
CONSTANTS
  Dev = {d1, d2, d3}
  NoDev = NoDev
  MaxPort = 3
SPECIFICATION StateSpec
SYMMETRY Symmetry
INVARIANTS
  PortAdvertised
  SavedDistinct
  PortKept
