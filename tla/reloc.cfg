\* Every pair of relocations, and pages with up to five of them; the image moves
\* to where its highest symbol plus the carry of a high half wraps around.
SPECIFICATION RSpec
CONSTANTS
  Half = 16
  Page = 8
  Low = 2
  Top = 64
  Base = 160
  Delta = 48
  Bss = 3
  Fill = {0, 13}
  Sections <- MCSections
  Inputs <- MCInputs
INVARIANTS TypeOK FieldsReach UntouchedElsewhere NotesComplete RenderFaithful LoaderInStep Rebasable
PROPERTIES Loads
CHECK_DEADLOCK FALSE
