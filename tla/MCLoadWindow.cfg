\* Three sample windows of the load average on a CPU that idles across them.
SPECIFICATION LoadSpec
CONSTANTS
  LOAD_FREQ = 4
  Window = 2
  FSHIFT = 11
  Exp = {1884}
  MaxActive = 2
  MaxIdle = 9
  MaxJiffies = 15
PROPERTY SampledWhenOpened
