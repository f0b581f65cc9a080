SPECIFICATION Spec
CONSTANTS
  ExtensionTypes = {3, 14, 15}
  ExtensionLengths = {0, 1, 250, 300}
  MaxExtensions = 2
INVARIANT HooksAreRefused
CHECK_DEADLOCK FALSE
