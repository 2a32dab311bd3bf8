CONSTANTS NHoles = 3
          Seeds = 2
SPECIFICATION Spec
PROPERTIES NoCaptureAfterTaken
CHECK_DEADLOCK FALSE
