SPECIFICATION Spec
CONSTANTS
  Programs = {"usb", "uart", "scan"}
  Size = 4
INVARIANT PrintsReceived
