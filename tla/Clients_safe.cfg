SPECIFICATION Spec
CONSTANTS
  Programs = {"wifi", "usb", "uart", "i2c", "spi", "can", "bluetooth", "scan", "net_usp"}
  Size = 4
INVARIANTS
  TypeOK
  ReleasedWhenDone
  CallsHaveTheirResources
  WhatTheCarelessKeep
  ShownWasReceived
