\* Does each iteration pick an image with the largest minimal disparity?
SPECIFICATION Spec
CONSTANTS
  Images <- MCImages
  Disparities <- MCDisparities
  NumPose = 4
PROPERTY MaximizesMinimalDisparity
