SPECIFICATION LiveSpec
CONSTANTS
  Drives = {1, 2}
  Workers = {w1, w2}
  Desired = 2
  MaxEvents = 1
PROPERTIES Heals AlarmIsRight
