SPECIFICATION Spec
CONSTANTS
  ExtensionTypes = {3, 14, 15}
  ExtensionLengths = {0, 1, 64, 250}
  MaxExtensions = 2
INVARIANT Token2022HooksAreRefused
CHECK_DEADLOCK FALSE
